---- MODULE Spec2Model ----
(***************************************************************************)
(* Model of the Whispering transcription back end                          *)
(* (apps/whispering/src-tauri/src/transcription).                          *)
(*                                                                         *)
(* ModelManager keeps one Option<Engine> behind a std::sync::Mutex, the    *)
(* path of the loaded model behind a second mutex and the time of the      *)
(* last activity behind a third.  The transcribe_audio_* commands call     *)
(* get_or_load_*, then lock the returned handle and run inference while    *)
(* holding the lock.  A panic while a guard is held poisons a std mutex    *)
(* for good: no code of the crate clears the flag.                         *)
(*                                                                         *)
(* Every get_or_load_*, unload_model and the last part of unload_if_idle   *)
(* run with the engine mutex held from their first statement to their      *)
(* return and block on nothing else, so each is one atomic action enabled  *)
(* when the engine mutex is free.  Inference holds the mutex across steps. *)
(*                                                                         *)
(* The commands in flight differ only in the engine variant and the model  *)
(* path they asked for, so they are kept as bags of such requests: those   *)
(* that hold the handle and wait for the mutex, and those that run         *)
(* transcribe_samples.                                                     *)
(*                                                                         *)
(* RecorderState (apps/whispering/src-tauri/src/recorder) owns one capture *)
(* session: a worker thread that builds and plays the cpal stream and then *)
(* serves Start, Stop and Shutdown commands from an mpsc channel, and a    *)
(* WavWriter behind a mutex shared with the stream's audio callback.  The  *)
(* tauri commands hold the AppData.recorder mutex for a whole call, so one *)
(* caller is at work at a time; it proceeds in steps wherever it waits for *)
(* the worker or for the writer mutex.  The recorder and the model manager *)
(* share no state: Spec runs the manager beside a recorder that is never   *)
(* initialised, RecSpec the recorder beside a manager that is never used.  *)
(***************************************************************************)
EXTENDS Naturals, Integers, Sequences, FiniteSets, Bags

\* ---------------------------------------------------------------- bounds
\* Concurrent transcription commands (tauri runs commands on a thread pool).
NumRequests == 2
\* Sample batches the audio callback writes to one sink.
MaxFrames == 2
\* The clock shows 0, or IdleTimeout + k minutes for k in 0..MaxOver.
MaxOver == 1
\* Channels of the audio a transcribe command is given.
MaxChannels == 3
\* Whole 1024-frame chunks of that audio.
MaxChunks == 2
\* Configs a device reports to get_optimal_config.
MaxConfigs == 2

\* ------------------------------------------------------------- constants
\* idle_timeout: Duration::from_secs(5 * 60), counted in minutes.
IdleTimeout == 5

Instants == {0} \cup {IdleTimeout + k : k \in 0..MaxOver}

\* Model directories a caller may name; loading from InvalidPath fails.
ValidPaths == {"/models/a", "/models/b"}
InvalidPath == "/invalid"
Paths == ValidPaths \cup {InvalidPath}

Parakeet == "Parakeet"
Whisper == "Whisper"
Moonshine == "Moonshine"

\* Option::None of current_model_path, and of the engine slot.
None == "None"
NoEngine == [variant |-> None, from |-> None]

VARIABLES
    whisperFeature,      \* cfg(feature = "whisper") of the build
    engine,              \* ModelManager.engine: NoEngine or the loaded Engine
    current_model_path,  \* ModelManager.current_model_path
    last_activity,       \* ModelManager.last_activity
    now,                 \* SystemTime::now()
    engineLocked,        \* the engine mutex is held (across steps: by inference)
    poisoned,            \* poison flag of the engine mutex
    ready,               \* commands that got the handle and are about to lock
                         \* it: a bag of what they asked for
    inferring,           \* commands inside transcribe_samples, likewise
    idlePc,              \* position of the unload_if_idle caller
    idleLa,              \* its copy of last_activity
    live,                \* engine instances holding loaded weights
    peakLive,            \* most such instances at one time in the latest operation
    calls,               \* engine calls made by the latest manager operation
    last,                \* the latest operation and what it returned
    loadFailed           \* the latest get_or_load_* call failed in its load

vars == <<whisperFeature, engine, current_model_path, last_activity, now,
          engineLocked, poisoned, ready, inferring, idlePc, idleLa, live,
          peakLive, calls, last, loadFailed>>

\* ------------------------------------------------------ recorder state
VARIABLES
    cmd_tx,              \* RecorderState.cmd_tx: None or "Some"
    worker_handle,       \* RecorderState.worker_handle: None or "Some"
    writer,              \* RecorderState.writer: None or "Some"
    is_recording,        \* the AtomicBool behind RecorderState.is_recording
    sample_rate,         \* RecorderState.sample_rate
    channels,            \* RecorderState.channels
    file_path,           \* RecorderState.file_path: NoPath or the file name
    workerPc,            \* position of the worker thread
    workerExit,          \* why the worker returned
    cmdQueue,            \* RecorderCmd values sent and not yet received
    reply,               \* the reply channel of the Start or Stop in flight
    cbPc,                \* position of the audio callback
    sinkFinalized,       \* WavWriter: finalize has run
    sinkFrames,          \* WavWriter: sample batches written
    files,               \* recording ids whose .wav file exists on disk
    callerPc,            \* position of the command that holds the recorder
    callerOp,            \* the public operation that command is in
    ret,                 \* the latest operation to return and its result
    lateFinalize,        \* a finalize ran since the callback read the flag
    activeId,            \* the id of the session, from an acknowledged start
                         \* to the next stop, cancel, close or init call
    failedBefore,        \* some worker has returned on a build or play error
    levelWindow,         \* samples in the callback's level_buffer
    levelsEmitted,       \* emit_levels calls of the stream
    lastFrame            \* what the callback did with the latest frame

recorder == <<cmd_tx, worker_handle, writer, is_recording, sample_rate, channels,
              file_path, workerPc, workerExit, cmdQueue, reply, cbPc,
              sinkFinalized, sinkFrames, files, callerPc, callerOp, ret,
              lateFinalize, activeId, failedBefore, levelWindow,
              levelsEmitted, lastFrame>>

\* The level window of the stream's callback and what it did with it.
levels == <<levelWindow, levelsEmitted, lastFrame>>

\* History kept for the properties: no operation reads it.
history == <<activeId, failedBefore>>

\* ------------------------------------- transcription front end state
VARIABLES
    audio,               \* the audio_data bytes a transcribe command was given
    command,             \* which transcribe_audio_<variant> command it is
    tPc,                 \* position of that command
    trace,               \* the conversion steps that have run, in order
    tier2,               \* what convert_audio_rust returned
    wav,                 \* what convert_audio_for_whisper returned
    samples,             \* how many samples extract_samples_from_wav returned
    tRet                 \* what the command returned before the manager

pipeline == <<audio, command, tPc, trace, tier2, wav, samples, tRet>>

\* ------------------------------------------- device negotiation state
VARIABLES
    configs,             \* device.supported_input_configs(), in order
    preferred,           \* preferred_sample_rate of get_optimal_config
    optimal              \* what get_optimal_config returned

negotiation == <<configs, preferred, optimal>>

\* ------------------------------------------------- level meter state
VARIABLES
    streamFormat,        \* the sample format the input stream was built for
    level_buffer,        \* level_buffer of the stream's callback: runs of
                         \* equal samples, as the callback converted them
    lastWindow,          \* the window the latest callback computed levels of
    lastLevels           \* compute_audio_levels of that window

meter == <<streamFormat, level_buffer, lastWindow, lastLevels>>

\* ------------------------------------------- manager mutexes, by thread
VARIABLES
    lockOwner,           \* for each mutex of ModelManager the thread whose
                         \* guard is alive, 0 when it is free
    at                   \* for each thread the call it is in and the
                         \* statement it is at

locking == <<lockOwner, at>>

\* What no ModelManager operation touches.
others == <<recorder, pipeline, negotiation, meter, locking>>

allVars == <<vars, recorder, pipeline, negotiation, meter, locking>>

mgr == <<engine, current_model_path, last_activity>>
idleVars == <<idlePc, idleLa>>
ghost == <<peakLive, calls, last, loadFailed>>

AllVariants == {Parakeet, Whisper, Moonshine}

\* The variants of enum Engine in this build.
Variants == {Parakeet, Moonshine} \cup (IF whisperFeature THEN {Whisper} ELSE {})

\* What the latest operation was and returned; retry marks a get_or_load_*
\* that succeeded right after one whose load failed.
Did(op, res) == [op |-> op, res |-> res, retry |-> FALSE]

\* What a transcribe_audio_<v> command with model_path p asked for.
Request(v, p) == [variant |-> v, path |-> p]

Requests == {Request(v, p) : v \in AllVariants, p \in Paths}

One(r) == SetToBag({r})

\* Commands past get_or_load_* that have not returned yet.
InFlight == BagCardinality(ready) + BagCardinality(inferring)

\* An Engine value: its variant and the directory its weights came from.
EngineOf(v, p) == [variant |-> v, from |-> p]

\* ------------------------------------------------------------ recorder
\* Recording ids a caller may pass to init_session, as character sequences:
\* file names, so not empty and without a path separator.
Ids == {<<"r">>, <<"r", ".", "x">>}

\* format!("{}.wav", recording_id): the file name under output_folder.
WavFileName(id) == id \o <<".", "w", "a", "v">>

\* Index of the last "." of a file name, 0 when it has none.
LastDot(name) ==
    LET dots == {i \in 1..Len(name) : name[i] = "."}
    IN  IF dots = {} THEN 0 ELSE CHOOSE i \in dots : \A j \in dots : j <= i

\* Path::file_stem: the name up to its last ".", the whole name when it has
\* no "." or only a leading one.
FileStem(name) ==
    LET d == LastDot(name)
    IN  IF d <= 1 THEN name ELSE SubSeq(name, 1, d - 1)

\* The stream config get_optimal_config settles on for the one input device.
NegotiatedRate == 16000
NegotiatedChannels == 1

\* Option::None of file_path (a file name is never empty), and of an
\* Option value an operation returns; Some(x) is the Option holding x.
NoPath == <<>>
NoneVal == <<>>
Some(x) == <<x>>

\* What an operation returned: res is "Ok" or the error, val the Ok value.
Returned(op, res, val) == [op |-> op, res |-> res, val |-> val]

\* RecorderState::new, with no worker, no callback and no caller at work.
RecorderNew ==
    /\ cmd_tx = None
    /\ worker_handle = None
    /\ writer = None
    /\ is_recording = FALSE
    /\ sample_rate = 0
    /\ channels = 0
    /\ file_path = NoPath
    /\ workerPc = "none"
    /\ workerExit = None
    /\ cmdQueue = <<>>
    /\ reply = "none"
    /\ cbPc = "idle"
    /\ sinkFinalized = FALSE
    /\ sinkFrames = 0
    /\ files = {}
    /\ callerPc = "idle"
    /\ callerOp = None
    /\ ret = Returned("new", "Ok", NoneVal)
    /\ lateFinalize = FALSE
    /\ activeId = NoneVal
    /\ failedBefore = FALSE
    /\ levelWindow = 0
    /\ levelsEmitted = 0
    /\ lastFrame = "none"

\* ------------------------------------------- transcription front end
\* A WAV file as hound reads it: the fields of its header, the frames in its
\* data chunk and the samples, which all hold the one value `sample`.  Of
\* resampled audio `sample` is the value of the input the samples were
\* interpolated from.
Wav(format, bits, chans, rate, frames, sample, resampled) ==
    [parses |-> TRUE, format |-> format, bits |-> bits, channels |-> chans,
     rate |-> rate, frames |-> frames, sample |-> sample,
     resampled |-> resampled]

\* Bytes hound::WavReader::new rejects: a compressed format, or no audio.
NotWav ==
    [parses |-> FALSE, format |-> "None", bits |-> 0, channels |-> 0,
     rate |-> 0, frames |-> 0, sample |-> 0, resampled |-> FALSE]

\* No result yet.
Pending == [res |-> "Pending", bytes |-> NotWav]

Result(res, bytes) == [res |-> res, bytes |-> bytes]

\* extract_samples_from_wav has not run.
NotExtracted == -1

\* No transcribe command is at work.
PipelineIdle ==
    /\ audio = NotWav
    /\ command = Parakeet
    /\ tPc = "idle"
    /\ trace = <<>>
    /\ tier2 = Pending
    /\ wav = Pending
    /\ samples = NotExtracted
    /\ tRet = "Pending"

\* A SupportedStreamConfigRange: channels, sample rate range, sample format.
\* Rates of the negotiation are counted in units of RateUnit Hz.
Config(chans, min, max, format) ==
    [channels |-> chans, min |-> min, max |-> max, format |-> format]

\* get_optimal_config has not returned: no config, no rate.
Unnegotiated == [res |-> "Pending", index |-> 0, rate |-> 0]

\* No get_optimal_config call is at work.
NegotiationIdle ==
    /\ configs = <<>>
    /\ preferred = NoneVal
    /\ optimal = Unnegotiated

\* The threads that call into the ModelManager at one time: the transcribe
\* commands and the caller of the unload operations.
Threads == 1..(NumRequests + 1)

\* The mutexes of ModelManager, by field name.
Locks == {"engine", "current_model_path", "last_activity"}

\* No thread is inside a ModelManager call: the three mutexes are free.
LockingIdle ==
    /\ lockOwner = [l \in Locks |-> 0]
    /\ at = [t \in Threads |-> [call |-> "none", pc |-> 0]]

\* No stream has been built: no level buffer has been filled.
MeterIdle ==
    /\ streamFormat = "F32"
    /\ level_buffer = <<>>
    /\ lastWindow = <<>>
    /\ lastLevels = NoneVal

\* ModelManager::new
Init ==
    /\ RecorderNew
    /\ PipelineIdle
    /\ MeterIdle
    /\ LockingIdle
    /\ NegotiationIdle
    /\ whisperFeature \in BOOLEAN
    /\ engine = NoEngine
    /\ current_model_path = None
    /\ now \in Instants
    /\ last_activity = now
    /\ engineLocked = FALSE
    /\ poisoned = FALSE
    /\ ready = EmptyBag
    /\ inferring = EmptyBag
    /\ idlePc = "start"
    /\ idleLa = 0
    /\ live = 0
    /\ peakLive = 0
    /\ calls = <<>>
    /\ last = Did("new", "Ok")
    /\ loadFailed = FALSE

\* The system clock moves to another instant: it may also be set back.
Tick ==
    /\ \E i \in Instants \ {now} : now' = i
    /\ UNCHANGED <<others, whisperFeature, mgr, engineLocked, poisoned, ready, inferring,
                   idleVars, live, ghost>>

\* engines' load_model / load_model_with_params: TRUE when the load succeeds.
LoadModel(v, p) == p \in ValidPaths

\* The arm of `match (&*engine_guard, &*current_path_guard)` that a
\* get_or_load_<v> call with model_path p takes.
MatchArm(v, p) ==
    IF engine = NoEngine THEN "empty"
    ELSE IF current_model_path # None /\ current_model_path # p THEN "different_path"
    ELSE IF v = Parakeet THEN
        IF whisperFeature /\ engine.variant = Whisper THEN "wrong_type" ELSE "keep"
    ELSE IF v = Whisper THEN
        IF engine.variant = Parakeet THEN "wrong_type" ELSE "keep"
    ELSE \* Moonshine
        IF (whisperFeature /\ engine.variant = Whisper) \/ engine.variant = Parakeet
        THEN "wrong_type" ELSE "keep"

\* Number of loaded engine instances after each call of a sequence of engine
\* calls, starting from n.
RECURSIVE LiveAfter(_, _)
LiveAfter(n, cs) ==
    IF cs = <<>> THEN n
    ELSE LET c == Head(cs)
             m == IF c = "load_ok" THEN n + 1
                  ELSE IF c \in {"unload", "drop"} THEN n - 1
                  ELSE n
         IN LiveAfter(m, Tail(cs))

\* Most loaded engine instances at any point of a sequence of engine calls.
RECURSIVE PeakLive(_, _)
PeakLive(n, cs) ==
    IF cs = <<>> THEN n
    ELSE LET m == LiveAfter(n, <<Head(cs)>>)
             rest == PeakLive(m, Tail(cs))
         IN IF n > rest THEN n ELSE rest

\* The arms of the match that take() the engine out of the slot and unload it.
TakesEngine(arm) == arm \in {"different_path", "wrong_type"}

\* AfterMatch with a fault: the arms unload the engine in place and leave it
\* in the slot.
AfterMatchKeepsEngine(arm) == engine

\* The slot after the match: take() leaves None.
AfterMatch(arm) == IF TakesEngine(arm) THEN NoEngine ELSE engine

\* EngineCalls with a fault: the new engine is loaded before the old one is
\* unloaded.
EngineCallsLoadFirst(taken, needs_load, loaded) ==
    (IF needs_load THEN <<IF loaded THEN "load_ok" ELSE "load_err">> ELSE <<>>)
    \o (IF taken THEN <<"unload">> ELSE <<>>)

\* The engine calls of a get_or_load_*, in program order: unload() inside the
\* match, then Engine::new() and load_model inside `if needs_load`.
EngineCalls(taken, needs_load, loaded) ==
    (IF taken THEN <<"unload">> ELSE <<>>)
    \o (IF needs_load THEN <<IF loaded THEN "load_ok" ELSE "load_err">> ELSE <<>>)

\* LastActivityAfter with a fault: the timestamp is refreshed only by a call
\* that loaded a model.
LastActivityOnlyOnLoad(needs_load) == IF needs_load THEN now ELSE last_activity

\* `*last_activity_guard = SystemTime::now()`, after the `if needs_load` block.
LastActivityAfter(needs_load) == now

\* PathAfter with a fault: a load does not record the path.
PathNotRecorded(needs_load, p) == current_model_path

\* `*current_path_guard = Some(model_path)` inside `if needs_load`.
PathAfter(needs_load, p) == IF needs_load THEN p ELSE current_model_path

\* get_or_load_parakeet / get_or_load_whisper / get_or_load_moonshine, called
\* by a new command.  On Ok the command goes on to lock the handle; on Err it
\* returns ModelLoadError.
GetOrLoad(v, p) ==
    /\ InFlight < NumRequests
    /\ v \in Variants
    /\ ~engineLocked
    /\ IF poisoned
       THEN \* self.engine.lock().map_err(..)? : the guard is dropped, Err
            /\ calls' = <<>>
            /\ last' = Did("get_or_load", "Err_poisoned")
            /\ loadFailed' = FALSE
            /\ peakLive' = live
            /\ UNCHANGED <<mgr, ready, live>>
       ELSE LET arm == MatchArm(v, p)
                needs_load == arm # "keep"
                loaded == needs_load /\ LoadModel(v, p)
                cs == EngineCalls(TakesEngine(arm), needs_load, loaded)
            IN  /\ calls' = cs
                /\ live' = LiveAfter(live, cs)
                /\ peakLive' = PeakLive(live, cs)
                /\ IF needs_load /\ ~loaded
                   THEN \* `?` after load_model: the slot keeps what the match left
                        /\ engine' = AfterMatch(arm)
                        /\ UNCHANGED <<current_model_path, last_activity, ready>>
                        /\ last' = Did("get_or_load", "Err_load")
                        /\ loadFailed' = TRUE
                   ELSE /\ engine' = IF needs_load THEN EngineOf(v, p) ELSE engine
                        /\ current_model_path' = PathAfter(needs_load, p)
                        /\ last_activity' = LastActivityAfter(needs_load)
                        /\ ready' = ready (+) One(Request(v, p))
                        /\ last' = [op |-> "get_or_load", res |-> "Ok",
                                    retry |-> loadFailed]
                        /\ loadFailed' = FALSE
    /\ UNCHANGED <<others, whisperFeature, now, engineLocked, poisoned, inferring,
                   idleVars>>

\* get_or_load_whisper of a build without the whisper feature.
GetOrLoadWhisperUnavailable ==
    /\ InFlight < NumRequests
    /\ ~whisperFeature
    /\ calls' = <<>>
    /\ peakLive' = live
    /\ last' = Did("get_or_load", "Err_unavailable")
    /\ UNCHANGED <<others, whisperFeature, mgr, now, engineLocked, poisoned, ready, inferring,
                   idleVars, live, loadFailed>>

\* What `engine_arc.lock().unwrap_or_else(|poisoned| ..)` leaves in the slot:
\* a poisoned mutex is entered anyway and the slot is cleared.
RecoverSlot == IF poisoned THEN NoEngine ELSE engine

\* GuardHeld with a fault: the guard is dropped before transcribe_samples.
GuardDroppedBeforeInference == FALSE

\* Whether the engine mutex is held while transcribe_samples runs:
\* engine_guard lives to the end of the `let result = { .. }` block.
GuardHeld == TRUE

\* transcribe_audio_*: lock the handle and take the engine out of the guard.
\* An empty slot or an engine of another variant returns ModelLoadError and
\* drops the guard; otherwise transcribe_samples starts with the guard held.
LockForInference(r) ==
    /\ BagIn(r, ready)
    /\ ~engineLocked
    /\ ready' = ready (-) One(r)
    /\ LET slot == RecoverSlot
           cs == IF poisoned /\ engine # NoEngine THEN <<"drop">> ELSE <<>>
       IN  /\ engine' = slot
           /\ calls' = cs
           /\ live' = LiveAfter(live, cs)
           /\ peakLive' = PeakLive(live, cs)
           /\ IF slot = NoEngine
              THEN /\ last' = Did("lock_for_inference", "Err_not_loaded")
                   /\ UNCHANGED <<engineLocked, inferring>>
              ELSE IF slot.variant # r.variant
              THEN /\ last' = Did("lock_for_inference", "Err_engine_type")
                   /\ UNCHANGED <<engineLocked, inferring>>
              ELSE /\ last' = Did("lock_for_inference", "Ok")
                   /\ inferring' = inferring (+) One(r)
                   /\ engineLocked' = GuardHeld
    /\ UNCHANGED <<others, whisperFeature, current_model_path, last_activity, now,
                   poisoned, idleVars, loadFailed>>

\* transcribe_samples returns: the guard is dropped at the end of the block.
\* ok tells Ok(result) from Err(e), which maps to TranscriptionError.
InferenceReturns(r, ok) ==
    /\ BagIn(r, inferring)
    /\ inferring' = inferring (-) One(r)
    /\ engineLocked' = FALSE
    /\ calls' = <<>>
    /\ peakLive' = live
    /\ last' = Did("inference", IF ok THEN "Ok" ELSE "Err_transcription")
    /\ UNCHANGED <<others, whisperFeature, mgr, now, poisoned, ready, idleVars, live,
                   loadFailed>>

\* transcribe_samples panics: unwinding drops the guard and poisons the mutex.
InferencePanics(r) ==
    /\ BagIn(r, inferring)
    /\ inferring' = inferring (-) One(r)
    /\ engineLocked' = FALSE
    /\ poisoned' = TRUE
    /\ calls' = <<>>
    /\ peakLive' = live
    /\ last' = Did("inference", "panic")
    /\ UNCHANGED <<others, whisperFeature, mgr, now, ready, idleVars, live, loadFailed>>

\* The body both unload paths share once the engine mutex is theirs:
\* Err(e) of a poisoned lock returns; else take(), unload(), clear the path.
TakeAndUnload(op) ==
    IF poisoned
    THEN /\ calls' = <<>>
         /\ peakLive' = live
         /\ last' = Did(op, "poisoned")
         /\ UNCHANGED <<engine, current_model_path, live>>
    ELSE LET cs == IF engine # NoEngine THEN <<"unload">> ELSE <<>>
         IN  /\ engine' = NoEngine
             /\ current_model_path' = None
             /\ calls' = cs
             /\ live' = LiveAfter(live, cs)
             /\ peakLive' = PeakLive(live, cs)
             /\ last' = Did(op, "Ok")

\* ModelManager::unload_model
UnloadModel ==
    /\ ~engineLocked
    /\ TakeAndUnload("unload_model")
    /\ UNCHANGED <<others, whisperFeature, last_activity, now, engineLocked, poisoned,
                   ready, inferring, idleVars, loadFailed>>

\* unload_if_idle, first statement: copy last_activity out of its mutex.
IdleReadActivity ==
    /\ idlePc = "start"
    /\ idlePc' = "read"
    /\ idleLa' = last_activity
    /\ UNCHANGED <<others, whisperFeature, mgr, now, engineLocked, poisoned, ready, inferring,
                   live, ghost>>

\* SystemTime::now().duration_since(t).unwrap_or(0): Err when t is later.
DurationSince(t) == IF now >= t THEN now - t ELSE 0

\* `elapsed > self.idle_timeout`
IsIdle(elapsed) == elapsed > IdleTimeout

\* unload_if_idle, second statement and the test: return when not idle.
IdleCheck ==
    /\ idlePc = "read"
    /\ idleLa' = 0
    /\ LET elapsed == DurationSince(idleLa)
       IN  IF IsIdle(elapsed)
           THEN /\ idlePc' = "lock"
                /\ UNCHANGED <<calls, peakLive, last>>
           ELSE /\ idlePc' = "start"
                /\ calls' = <<>>
                /\ peakLive' = live
                /\ last' = Did("unload_if_idle", "not_idle")
    /\ UNCHANGED <<others, whisperFeature, mgr, now, engineLocked, poisoned, ready, inferring,
                   live, loadFailed>>

\* unload_if_idle, the body of the if: lock the engine and unload.
IdleUnload ==
    /\ idlePc = "lock"
    /\ ~engineLocked
    /\ idlePc' = "start"
    /\ TakeAndUnload("unload_if_idle")
    /\ UNCHANGED <<others, whisperFeature, last_activity, now, engineLocked, poisoned,
                   ready, inferring, idleLa, loadFailed>>

Next ==
    \/ Tick
    \/ \E v \in AllVariants, p \in Paths : GetOrLoad(v, p)
    \/ GetOrLoadWhisperUnavailable
    \/ \E r \in Requests : LockForInference(r)
    \/ \E r \in Requests, ok \in BOOLEAN : InferenceReturns(r, ok)
    \/ \E r \in Requests : InferencePanics(r)
    \/ UnloadModel
    \/ IdleReadActivity
    \/ IdleCheck
    \/ IdleUnload

Spec == Init /\ [][Next]_allVars

\* ---------------------------------------------------- recorder: helpers
\* cmd_rx lives in the worker's closure: it is dropped when the thread returns.
ReceiverAlive == workerPc \in {"build", "play", "recv", "ack"}

\* The stream has been played and not dropped: the audio callback is called.
StreamPlaying == workerPc \in {"recv", "ack"}

\* The caller holds the guard of the writer mutex.
CallerHoldsWriter == callerPc \in {"stop_finalize", "close_finalize"}

\* CallbackMayLock with a fault: the callback writes without taking the lock.
CallbackIgnoresLock == TRUE

\* `writer.lock()` in the callback returns once no other guard is alive.
CallbackMayLock == ~CallerHoldsWriter

\* `writer.lock()` in stop_recording and close_session, likewise.
CallerMayLock == cbPc # "writing"

\* ReplyAfterDrop with a fault: the receiver outlives the worker, a queued
\* command is never dropped and its reply sender stays alive.
ReplyKeptAfterDrop == reply

\* Dropping cmd_rx drops the queued commands, and with a Start or Stop its
\* reply sender: the waiting reply_rx.recv() returns Err.
ReplyAfterDrop == IF reply = "pending" THEN "dropped" ELSE reply

\* FlagAfter with a fault: the worker acknowledges without storing the flag.
FlagNotStored(cmd) == is_recording

\* is_recording.store(true / false) of the Start and Stop arms.
FlagAfter(cmd) == cmd = "Start"

\* RemoveFile with a fault: cancel_recording leaves the file on disk.
RemoveFileSkipped(path) == files

\* std::fs::remove_file(file_path).ok()
RemoveFile(path) == files \ {path}

\* TakeCmdTx with a fault: close_session reads cmd_tx and leaves it in place.
CmdTxNotTaken == cmd_tx

\* self.cmd_tx.take() leaves None.
TakeCmdTx == None

\* SendFails with a fault: a send to a dropped receiver queues the command.
SendNeverFails == FALSE

\* `tx.send(cmd)` returns Err when the receiver has been dropped.
SendFails == ~ReceiverAlive

\* The command queue after `tx.send(cmd)`: a failed send drops the command.
Sent(cmd) == IF SendFails THEN cmdQueue ELSE Append(cmdQueue, cmd)

\* StartWithoutSession with a fault: like stop_recording, start_recording
\* takes a missing session for nothing to do.
StartWithoutSessionOk == "Ok"

\* The else branch of `if let Some(tx) = &self.cmd_tx` in start_recording.
StartWithoutSession == "Err_no_session"

\* ClearedPath with a fault: close_session leaves file_path in place.
PathNotCleared == file_path

\* `self.file_path = None` of close_session.
ClearedPath == NoPath

\* The id init_session was called with, from the file name it stored.
SessionId == CHOOSE id \in Ids : WavFileName(id) = file_path

\* WavWriter::new creates the sink's file at the session's path.
WavWriterNew(name) == files \cup {name}

\* WavWriter::write_samples_f32 / _i16 / _u16 appends one batch of samples.
WavWriterWrite == sinkFrames + 1

\* WavWriter::finalize flushes the header through the file the sink holds
\* open: it creates no file.
WavWriterFinalize == files

\* The duration WavWriter::get_metadata reports, in batches written.
WavWriterDuration == sinkFrames

\* The metadata of AudioRecording.
Metadata(rate, chans, duration, path) ==
    [sample_rate |-> rate, channels |-> chans, duration |-> duration,
     file_path |-> path]

\* JoinReturns with a fault: the join never returns.
JoinBlocks == FALSE

\* JoinReturns with a fault: the worker is detached, close_session does not
\* wait for it.
JoinDetached == TRUE

\* `handle.join()` returns once the worker thread has returned.
JoinReturns == workerPc = "exited"

\* FlagLoaded with a fault: the callback takes every frame.
FlagLoadedTrue == TRUE

\* `is_recording.load(Ordering::Relaxed)` at the top of the callback.
FlagLoaded == is_recording

\* LEVEL_BUFFER_SIZE
LEVEL_BUFFER_SIZE == 512

\* Samples in the `data` slice of one callback call.
FrameLen == 256

\* buffer.len() once the frame's samples have been pushed.
WindowExtended == levelWindow + FrameLen

\* `if buffer.len() >= LEVEL_BUFFER_SIZE`: the window is full.
WindowFull == WindowExtended >= LEVEL_BUFFER_SIZE

\* The manager, the transcription front end and the device negotiation are
\* left alone by every recorder step.
ManagerIdle == UNCHANGED <<vars, pipeline, negotiation, meter, locking>>

\* --------------------------------------------------- recorder: the worker
\* The worker thread returns: stream and cmd_rx are dropped.  Dropping a
\* played stream waits for the audio callback that is running.
WorkerReturns(why) ==
    /\ workerPc' = "exited"
    /\ workerExit' = why
    /\ cmdQueue' = <<>>
    /\ reply' = ReplyAfterDrop
    /\ failedBefore' = (failedBefore \/ why \in {"build_failed", "play_failed"})

\* build_input_stream in the worker: Ok makes the stream with an empty
\* level_buffer, Err logs and returns.
WorkerBuild(ok) ==
    /\ workerPc = "build"
    /\ IF ok
       THEN /\ workerPc' = "play"
            /\ levelWindow' = 0
            /\ levelsEmitted' = 0
            /\ UNCHANGED <<workerExit, cmdQueue, reply, failedBefore>>
       ELSE /\ WorkerReturns("build_failed")
            /\ UNCHANGED <<levelWindow, levelsEmitted>>
    /\ UNCHANGED <<cmd_tx, worker_handle, writer, is_recording, sample_rate,
                   channels, file_path, cbPc, sinkFinalized, sinkFrames, files,
                   callerPc, callerOp, ret, lateFinalize>>
    /\ UNCHANGED <<activeId, lastFrame>>
    /\ ManagerIdle

\* stream.play() in the worker: Err logs and returns.
WorkerPlay(ok) ==
    /\ workerPc = "play"
    /\ IF ok
       THEN workerPc' = "recv" /\ UNCHANGED <<workerExit, cmdQueue, reply, failedBefore>>
       ELSE WorkerReturns("play_failed")
    /\ UNCHANGED <<cmd_tx, worker_handle, writer, is_recording, sample_rate,
                   channels, file_path, cbPc, sinkFinalized, sinkFrames, files,
                   callerPc, callerOp, ret, lateFinalize>>
    /\ UNCHANGED activeId
    /\ UNCHANGED levels
    /\ ManagerIdle

\* cmd_rx.recv() returns: Start and Stop store the flag, Shutdown and a
\* disconnected channel break out of the loop.
WorkerRecv ==
    /\ workerPc = "recv"
    /\ cmdQueue # <<>> \/ cmd_tx = None
    /\ IF cmdQueue # <<>> /\ Head(cmdQueue) \in {"Start", "Stop"}
       THEN /\ is_recording' = FlagAfter(Head(cmdQueue))
            /\ cmdQueue' = Tail(cmdQueue)
            /\ workerPc' = "ack"
            /\ UNCHANGED <<workerExit, reply, failedBefore>>
       ELSE /\ cbPc = "idle"
            /\ WorkerReturns(IF cmdQueue # <<>> THEN "shutdown" ELSE "disconnected")
            /\ UNCHANGED is_recording
    /\ UNCHANGED <<cmd_tx, worker_handle, writer, sample_rate, channels,
                   file_path, cbPc, sinkFinalized, sinkFrames, files, callerPc,
                   callerOp, ret, lateFinalize>>
    /\ UNCHANGED activeId
    /\ UNCHANGED levels
    /\ ManagerIdle

\* `let _ = reply_tx.send(())` of the Start and Stop arms.
WorkerAck ==
    /\ workerPc = "ack"
    /\ workerPc' = "recv"
    /\ reply' = "acked"
    /\ UNCHANGED <<cmd_tx, worker_handle, writer, is_recording, sample_rate,
                   channels, file_path, workerExit, cmdQueue, cbPc,
                   sinkFinalized, sinkFrames, files, callerPc, callerOp, ret,
                   lateFinalize>>
    /\ UNCHANGED history
    /\ UNCHANGED levels
    /\ ManagerIdle

\* ------------------------------------------- recorder: the audio callback
\* The callback is called with a frame and loads the flag: a frame that
\* finds it false is dropped, the callback returns at once.
CallbackBegin ==
    /\ StreamPlaying
    /\ cbPc = "idle"
    /\ sinkFrames < MaxFrames
    /\ IF FlagLoaded
       THEN /\ cbPc' = "locking"
            /\ lateFinalize' = FALSE
            /\ UNCHANGED lastFrame
       ELSE /\ lastFrame' = "dropped"
            /\ UNCHANGED <<cbPc, lateFinalize>>
    /\ UNCHANGED <<cmd_tx, worker_handle, writer, is_recording, sample_rate,
                   channels, file_path, workerPc, workerExit, cmdQueue, reply,
                   sinkFinalized, sinkFrames, files, callerPc, callerOp, ret>>
    /\ UNCHANGED <<levelWindow, levelsEmitted>>
    /\ UNCHANGED history
    /\ ManagerIdle

\* `if let Ok(mut w) = writer.lock()` in the callback.
CallbackLock ==
    /\ cbPc = "locking"
    /\ CallbackMayLock
    /\ cbPc' = "writing"
    /\ UNCHANGED <<cmd_tx, worker_handle, writer, is_recording, sample_rate,
                   channels, file_path, workerPc, workerExit, cmdQueue, reply,
                   sinkFinalized, sinkFrames, files, callerPc, callerOp, ret,
                   lateFinalize>>
    /\ UNCHANGED history
    /\ UNCHANGED levels
    /\ ManagerIdle

\* `let _ = w.write_samples_*(data)`, then the guard is dropped.
CallbackWrite ==
    /\ cbPc = "writing"
    /\ sinkFrames' = WavWriterWrite
    /\ cbPc' = "leveling"
    /\ lateFinalize' = FALSE
    /\ UNCHANGED <<cmd_tx, worker_handle, writer, is_recording, sample_rate,
                   channels, file_path, workerPc, workerExit, cmdQueue, reply,
                   sinkFinalized, files, callerPc, callerOp, ret>>
    /\ UNCHANGED history
    /\ UNCHANGED levels
    /\ ManagerIdle

\* The frame's samples are pushed to level_buffer; a full window is turned
\* into levels, emitted and cleared.  The callback returns.
CallbackLevel ==
    /\ cbPc = "leveling"
    /\ cbPc' = "idle"
    /\ lastFrame' = "written"
    /\ IF WindowFull
       THEN levelWindow' = 0 /\ levelsEmitted' = levelsEmitted + 1
       ELSE levelWindow' = WindowExtended /\ UNCHANGED levelsEmitted
    /\ UNCHANGED <<cmd_tx, worker_handle, writer, is_recording, sample_rate,
                   channels, file_path, workerPc, workerExit, cmdQueue, reply,
                   sinkFinalized, sinkFrames, files, callerPc, callerOp, ret,
                   lateFinalize>>
    /\ UNCHANGED history
    /\ ManagerIdle

\* ---------------------------------------------------- recorder: commands
\* self.file_path as the Option<String> of AudioRecording.
PathOption == IF file_path = NoPath THEN NoneVal ELSE Some(file_path)

\* close_session, first statement: take cmd_tx and send Shutdown through it.
CloseBegin(op) ==
    /\ cmd_tx' = TakeCmdTx
    /\ cmdQueue' = IF cmd_tx # None THEN Sent("Shutdown") ELSE cmdQueue
    /\ callerOp' = op
    /\ callerPc' = "close_join"

\* close_session, last statements: clear the fields and return Ok to the
\* caller, which for init_session goes on to create the new session; after
\* drop the RecorderState is gone and takes no further call.
CloseFinish ==
    /\ file_path' = ClearedPath
    /\ sample_rate' = 0
    /\ channels' = 0
    /\ IF callerOp = "init_session"
       THEN callerPc' = "init_create" /\ UNCHANGED <<callerOp, ret>>
       ELSE /\ callerPc' = IF callerOp = "drop" THEN "dropped" ELSE "idle"
            /\ callerOp' = None
            /\ ret' = Returned(callerOp, "Ok", NoneVal)

\* RecorderState::close_session called by the close_recording_session command.
CloseSession ==
    /\ callerPc = "idle"
    /\ CloseBegin("close_session")
    /\ UNCHANGED <<worker_handle, writer, is_recording, sample_rate, channels,
                   file_path, workerPc, workerExit, reply, cbPc, sinkFinalized,
                   sinkFrames, files, ret, lateFinalize>>
    /\ activeId' = NoneVal
    /\ UNCHANGED failedBefore
    /\ UNCHANGED levels
    /\ ManagerIdle

\* Drop for RecorderState: `let _ = self.close_session()`.
DropRecorderState ==
    /\ callerPc = "idle"
    /\ CloseBegin("drop")
    /\ UNCHANGED <<worker_handle, writer, is_recording, sample_rate, channels,
                   file_path, workerPc, workerExit, reply, cbPc, sinkFinalized,
                   sinkFrames, files, ret, lateFinalize>>
    /\ activeId' = NoneVal
    /\ UNCHANGED failedBefore
    /\ UNCHANGED levels
    /\ ManagerIdle

\* RecorderState::init_session: `self.close_session()?` comes first.
InitSession ==
    /\ callerPc = "idle"
    /\ CloseBegin("init_session")
    /\ UNCHANGED <<worker_handle, writer, is_recording, sample_rate, channels,
                   file_path, workerPc, workerExit, reply, cbPc, sinkFinalized,
                   sinkFrames, files, ret, lateFinalize>>
    /\ activeId' = NoneVal
    /\ UNCHANGED failedBefore
    /\ UNCHANGED levels
    /\ ManagerIdle

\* close_session: `handle.join()` returns when the worker thread has returned.
CloseJoin ==
    /\ callerPc = "close_join"
    /\ worker_handle = None \/ JoinReturns
    /\ worker_handle' = None
    /\ callerPc' = "close_lock"
    /\ UNCHANGED <<cmd_tx, writer, is_recording, sample_rate, channels,
                   file_path, workerPc, workerExit, cmdQueue, reply, cbPc,
                   sinkFinalized, sinkFrames, files, callerOp, ret, lateFinalize>>
    /\ UNCHANGED history
    /\ UNCHANGED levels
    /\ ManagerIdle

\* close_session: take the writer and lock it; with no writer go on to clear
\* the fields.
CloseLock ==
    /\ callerPc = "close_lock"
    /\ IF writer = None
       THEN CloseFinish /\ UNCHANGED writer
       ELSE /\ CallerMayLock
            /\ writer' = None
            /\ callerPc' = "close_finalize"
            /\ UNCHANGED <<file_path, sample_rate, channels, callerOp, ret>>
    /\ UNCHANGED <<cmd_tx, worker_handle, is_recording, workerPc, workerExit,
                   cmdQueue, reply, cbPc, sinkFinalized, sinkFrames, files,
                   lateFinalize>>
    /\ UNCHANGED history
    /\ UNCHANGED levels
    /\ ManagerIdle

\* close_session: `let _ = w.finalize()`, then the fields are cleared.
CloseFinalize ==
    /\ callerPc = "close_finalize"
    /\ sinkFinalized' = TRUE
    /\ files' = WavWriterFinalize
    /\ lateFinalize' = (cbPc = "locking")
    /\ CloseFinish
    /\ UNCHANGED <<cmd_tx, worker_handle, writer, is_recording, workerPc,
                   workerExit, cmdQueue, reply, cbPc, sinkFrames>>
    /\ UNCHANGED history
    /\ UNCHANGED levels
    /\ ManagerIdle

\* init_session after close_session: find_device, get_optimal_config and
\* WavWriter::new may fail; else the flag is replaced, the worker is spawned
\* and the fields are stored.
InitCreate(id, outcome) ==
    /\ callerPc = "init_create"
    /\ callerPc' = "idle"
    /\ callerOp' = None
    /\ ret' = Returned("init_session", outcome, NoneVal)
    /\ IF outcome = "Ok"
       THEN /\ files' = WavWriterNew(WavFileName(id))
            /\ sinkFinalized' = FALSE
            /\ sinkFrames' = 0
            /\ is_recording' = FALSE
            /\ workerPc' = "build"
            /\ workerExit' = None
            /\ cmdQueue' = <<>>
            /\ reply' = "none"
            /\ cmd_tx' = "Some"
            /\ worker_handle' = "Some"
            /\ writer' = "Some"
            /\ sample_rate' = NegotiatedRate
            /\ channels' = NegotiatedChannels
            /\ file_path' = WavFileName(id)
            /\ lateFinalize' = FALSE
       ELSE UNCHANGED <<cmd_tx, worker_handle, writer, is_recording, sample_rate,
                        channels, file_path, workerPc, workerExit, cmdQueue,
                        reply, sinkFinalized, sinkFrames, files, lateFinalize>>
    /\ UNCHANGED cbPc
    /\ UNCHANGED history
    /\ UNCHANGED levels
    /\ ManagerIdle

\* RecorderState::start_recording up to `reply_rx.recv()`.
StartRecording ==
    /\ callerPc = "idle"
    /\ IF cmd_tx = None
       THEN /\ ret' = Returned("start_recording", StartWithoutSession, NoneVal)
            /\ UNCHANGED <<cmdQueue, reply, callerPc, callerOp>>
       ELSE IF SendFails
       THEN /\ ret' = Returned("start_recording", "Err_send", NoneVal)
            /\ UNCHANGED <<cmdQueue, reply, callerPc, callerOp>>
       ELSE /\ cmdQueue' = Sent("Start")
            /\ reply' = "pending"
            /\ callerPc' = "start_wait"
            /\ callerOp' = "start_recording"
            /\ UNCHANGED ret
    /\ UNCHANGED <<cmd_tx, worker_handle, writer, is_recording, sample_rate,
                   channels, file_path, workerPc, workerExit, cbPc,
                   sinkFinalized, sinkFrames, files, lateFinalize>>
    /\ UNCHANGED history
    /\ UNCHANGED levels
    /\ ManagerIdle

\* start_recording: `reply_rx.recv()` returns.
AwaitStart ==
    /\ callerPc = "start_wait"
    /\ reply \in {"acked", "dropped"}
    /\ reply' = "none"
    /\ callerPc' = "idle"
    /\ callerOp' = None
    /\ ret' = Returned("start_recording",
                       IF reply = "acked" THEN "Ok" ELSE "Err_recv", NoneVal)
    /\ UNCHANGED <<cmd_tx, worker_handle, writer, is_recording, sample_rate,
                   channels, file_path, workerPc, workerExit, cmdQueue, cbPc,
                   sinkFinalized, sinkFrames, files, lateFinalize>>
    /\ activeId' = IF reply = "acked" THEN Some(SessionId) ELSE activeId
    /\ UNCHANGED failedBefore
    /\ UNCHANGED levels
    /\ ManagerIdle

\* RecorderState::stop_recording up to `reply_rx.recv()`; with no cmd_tx it
\* goes straight to the writer.
StopRecording ==
    /\ callerPc = "idle"
    /\ IF cmd_tx = None
       THEN /\ callerPc' = "stop_lock"
            /\ callerOp' = "stop_recording"
            /\ UNCHANGED <<cmdQueue, reply, ret>>
       ELSE IF SendFails
       THEN /\ ret' = Returned("stop_recording", "Err_send", NoneVal)
            /\ UNCHANGED <<cmdQueue, reply, callerPc, callerOp>>
       ELSE /\ cmdQueue' = Sent("Stop")
            /\ reply' = "pending"
            /\ callerPc' = "stop_wait"
            /\ callerOp' = "stop_recording"
            /\ UNCHANGED ret
    /\ UNCHANGED <<cmd_tx, worker_handle, writer, is_recording, sample_rate,
                   channels, file_path, workerPc, workerExit, cbPc,
                   sinkFinalized, sinkFrames, files, lateFinalize>>
    /\ activeId' = NoneVal
    /\ UNCHANGED failedBefore
    /\ UNCHANGED levels
    /\ ManagerIdle

\* stop_recording: `reply_rx.recv()` returns.
AwaitStop ==
    /\ callerPc = "stop_wait"
    /\ reply \in {"acked", "dropped"}
    /\ reply' = "none"
    /\ IF reply = "acked"
       THEN callerPc' = "stop_lock" /\ UNCHANGED <<callerOp, ret>>
       ELSE /\ callerPc' = "idle"
            /\ callerOp' = None
            /\ ret' = Returned("stop_recording", "Err_recv", NoneVal)
    /\ UNCHANGED <<cmd_tx, worker_handle, writer, is_recording, sample_rate,
                   channels, file_path, workerPc, workerExit, cmdQueue, cbPc,
                   sinkFinalized, sinkFrames, files, lateFinalize>>
    /\ UNCHANGED history
    /\ UNCHANGED levels
    /\ ManagerIdle

\* stop_recording: lock the writer; with no writer return the fields.
StopLock ==
    /\ callerPc = "stop_lock"
    /\ IF writer = None
       THEN /\ callerPc' = "idle"
            /\ callerOp' = None
            /\ ret' = Returned("stop_recording", "Ok",
                               Metadata(sample_rate, channels, 0, PathOption))
       ELSE /\ CallerMayLock
            /\ callerPc' = "stop_finalize"
            /\ UNCHANGED <<callerOp, ret>>
    /\ UNCHANGED <<cmd_tx, worker_handle, writer, is_recording, sample_rate,
                   channels, file_path, workerPc, workerExit, cmdQueue, reply,
                   cbPc, sinkFinalized, sinkFrames, files, lateFinalize>>
    /\ UNCHANGED history
    /\ UNCHANGED levels
    /\ ManagerIdle

\* stop_recording: `w.finalize()` and `w.get_metadata()` under the guard.
StopFinalize(ok) ==
    /\ callerPc = "stop_finalize"
    /\ callerPc' = "idle"
    /\ callerOp' = None
    /\ IF ok
       THEN /\ sinkFinalized' = TRUE
            /\ files' = WavWriterFinalize
            /\ lateFinalize' = (cbPc = "locking")
            /\ ret' = Returned("stop_recording", "Ok",
                               Metadata(sample_rate, channels, WavWriterDuration,
                                        PathOption))
       ELSE /\ ret' = Returned("stop_recording", "Err_finalize", NoneVal)
            /\ UNCHANGED <<sinkFinalized, files, lateFinalize>>
    /\ UNCHANGED <<cmd_tx, worker_handle, writer, is_recording, sample_rate,
                   channels, file_path, workerPc, workerExit, cmdQueue, reply,
                   cbPc, sinkFrames>>
    /\ UNCHANGED history
    /\ UNCHANGED levels
    /\ ManagerIdle

\* RecorderState::cancel_recording up to `reply_rx.recv()`: a failed send
\* drops the reply sender with the command.
CancelRecording ==
    /\ callerPc = "idle"
    /\ callerOp' = "cancel_recording"
    /\ IF cmd_tx = None \/ SendFails
       THEN callerPc' = "cancel_delete" /\ UNCHANGED <<cmdQueue, reply>>
       ELSE /\ cmdQueue' = Sent("Stop")
            /\ reply' = "pending"
            /\ callerPc' = "cancel_wait"
    /\ UNCHANGED <<cmd_tx, worker_handle, writer, is_recording, sample_rate,
                   channels, file_path, workerPc, workerExit, cbPc,
                   sinkFinalized, sinkFrames, files, ret, lateFinalize>>
    /\ activeId' = NoneVal
    /\ UNCHANGED failedBefore
    /\ UNCHANGED levels
    /\ ManagerIdle

\* cancel_recording: `let _ = reply_rx.recv()` returns, Ok or Err.
AwaitCancel ==
    /\ callerPc = "cancel_wait"
    /\ reply \in {"acked", "dropped"}
    /\ reply' = "none"
    /\ callerPc' = "cancel_delete"
    /\ UNCHANGED <<cmd_tx, worker_handle, writer, is_recording, sample_rate,
                   channels, file_path, workerPc, workerExit, cmdQueue, cbPc,
                   sinkFinalized, sinkFrames, files, callerOp, ret, lateFinalize>>
    /\ UNCHANGED history
    /\ UNCHANGED levels
    /\ ManagerIdle

\* cancel_recording: remove the file, then `self.close_session()?`.
CancelDelete ==
    /\ callerPc = "cancel_delete"
    /\ files' = IF file_path # NoPath THEN RemoveFile(file_path) ELSE files
    /\ CloseBegin("cancel_recording")
    /\ UNCHANGED <<worker_handle, writer, is_recording, sample_rate, channels,
                   file_path, workerPc, workerExit, reply, cbPc, sinkFinalized,
                   sinkFrames, ret, lateFinalize>>
    /\ UNCHANGED history
    /\ UNCHANGED levels
    /\ ManagerIdle

\* RecorderState::get_current_recording_id
GetCurrentRecordingId ==
    /\ callerPc = "idle"
    /\ ret' = Returned("get_current_recording_id", "Ok",
                       IF is_recording /\ file_path # NoPath
                       THEN Some(FileStem(file_path)) ELSE NoneVal)
    /\ UNCHANGED <<cmd_tx, worker_handle, writer, is_recording, sample_rate,
                   channels, file_path, workerPc, workerExit, cmdQueue, reply,
                   cbPc, sinkFinalized, sinkFrames, files, callerPc, callerOp,
                   lateFinalize>>
    /\ UNCHANGED history
    /\ UNCHANGED levels
    /\ ManagerIdle

\* ---------------------------------------------- recorder: specification
\* A recorder fresh from AppData::new beside a manager that no command uses.
RecInit ==
    /\ RecorderNew
    /\ PipelineIdle
    /\ MeterIdle
    /\ LockingIdle
    /\ NegotiationIdle
    /\ whisperFeature = TRUE
    /\ engine = NoEngine
    /\ current_model_path = None
    /\ now = 0
    /\ last_activity = 0
    /\ engineLocked = FALSE
    /\ poisoned = FALSE
    /\ ready = EmptyBag
    /\ inferring = EmptyBag
    /\ idlePc = "start"
    /\ idleLa = 0
    /\ live = 0
    /\ peakLive = 0
    /\ calls = <<>>
    /\ last = Did("new", "Ok")
    /\ loadFailed = FALSE

InitOutcomes == {"Ok", "Err_device", "Err_config", "Err_wav"}

RecNext ==
    \/ InitSession
    \/ \E id \in Ids, outcome \in InitOutcomes : InitCreate(id, outcome)
    \/ StartRecording
    \/ AwaitStart
    \/ StopRecording
    \/ AwaitStop
    \/ StopLock
    \/ \E ok \in BOOLEAN : StopFinalize(ok)
    \/ CancelRecording
    \/ AwaitCancel
    \/ CancelDelete
    \/ CloseSession
    \/ DropRecorderState
    \/ CloseJoin
    \/ CloseLock
    \/ CloseFinalize
    \/ GetCurrentRecordingId
    \/ \E ok \in BOOLEAN : WorkerBuild(ok)
    \/ \E ok \in BOOLEAN : WorkerPlay(ok)
    \/ WorkerRecv
    \/ WorkerAck
    \/ CallbackBegin
    \/ CallbackLock
    \/ CallbackWrite
    \/ CallbackLevel

RecSpec == RecInit /\ [][RecNext]_allVars

\* ---------------------------------- transcription front end: normalizer
\* The sample rate, channel count and bit depth the engines take.
TargetRate == 16000
MonoChannels == 1
PcmBits == 16

\* chunk_size and sinc_len of the resampler, the largest ratio it takes.
ChunkSize == 1024
SincLen == 64
MaxRatio == 8

\* 32768.0, the divisor of a 16-bit sample; samples are kept as the numerator
\* of their normalized f32 value over it.
FullScale == 32768

\* 32767.0, the factor of the f32 to i16 conversion.
PcmScale == 32767

\* 2147483648.0 / 32768.0: 32-bit sample values per unit of the numerator.
Int32PerUnit == 65536

Min(a, b) == IF a < b THEN a ELSE b
Max(a, b) == IF a > b THEN a ELSE b

\* a / b rounded up, for b > 0.
CeilDiv(a, b) == -((-a) \div b)

\* f64::round of a / b for a >= 0, b > 0: half away from zero.
Round(a, b) == (2 * a + b) \div (2 * b)

\* The encodings of the inputs: sample format and bits per sample.
Encodings ==
    {[format |-> "Int", bits |-> 16], [format |-> "Int", bits |-> 24],
     [format |-> "Int", bits |-> 32], [format |-> "Float", bits |-> 32]}

\* Sample values of the inputs, per encoding: integers as stored, floats as
\* their numerator over FullScale (40000 is above 1.0).
SampleValues(e) ==
    IF e.format = "Float" THEN {0, 40000}
    ELSE IF e.bits = 16 THEN {0, 1, -32768}
    ELSE IF e.bits = 32 THEN {0, 100 * Int32PerUnit}
    ELSE {0, 256}

\* Source rates of the inputs, in Hz.
Rates == {1999, 2000, 8000, TargetRate, 48000}

\* Frames per channel of the inputs: none, less than a chunk, whole chunks,
\* whole chunks and one frame.
FrameCounts ==
    {0, 1, 1000} \cup {ChunkSize * k : k \in 1..MaxChunks}
                 \cup {ChunkSize * k + 1 : k \in 1..(MaxChunks - 1)}

\* The audio_data a command may be called with.
Inputs ==
    {NotWav} \cup
    UNION {{Wav(e.format, e.bits, c, r, n, v, FALSE) : v \in SampleValues(e)} :
             e \in Encodings, c \in 1..MaxChannels, r \in Rates,
             n \in FrameCounts}

\* FormatIsValid with a fault: the fast path is never taken.
FormatNeverValid(a) == FALSE

\* is_valid_wav_format
FormatIsValid(a) ==
    /\ a.parses
    /\ a.format = "Int"
    /\ a.channels = MonoChannels
    /\ a.rate = TargetRate
    /\ a.bits = PcmBits

\* The arms of `match spec.sample_format` / `match spec.bits_per_sample` that
\* read samples.
Decodes(a) == a.format = "Float" \/ a.bits \in {16, 32}

\* Step 1: a sample as normalized f32 (its numerator over FullScale).
DecodeSample(a) ==
    IF a.format = "Float" THEN a.sample
    ELSE IF a.bits = 16 THEN a.sample
    ELSE a.sample \div Int32PerUnit

\* Step 2: the mean of the `chans` samples of a frame, all of value v.
Downmix(v, chans) == (v * chans) \div chans

\* Step 2: chunks_exact(channels) over all samples.
MonoFrames(a) == (a.frames * a.channels) \div a.channels

\* RatioTooHigh with a fault: a ratio of exactly 8 is rejected too.
RatioTooHighInclusive(rate) == TargetRate >= MaxRatio * rate

\* `resample_ratio > 8.0` with resample_ratio = 16000.0 / sample_rate.
RatioTooHigh(rate) == TargetRate > MaxRatio * rate

\* expected_output_len
ExpectedLen(n, rate) == Round(n * TargetRate, rate)

\* Iterations of `while input_pos < mono_samples.len()`.
Chunks(n) == CeilDiv(n, ChunkSize)

\* Frames SincFixedIn::process puts out for `chunks` chunks of ChunkSize
\* frames.  idx is the resampler's read position in the chunk, in 1/16000 of
\* an input frame: it advances by `rate` per output frame, stops SincLen + 1
\* frames and one step short of the chunk's end, because a frame is
\* interpolated from the SincLen frames around it, and carries over.
RECURSIVE ResamplerFrames(_, _, _)
ResamplerFrames(chunks, idx, rate) ==
    IF chunks = 0 THEN 0
    ELSE LET end == (ChunkSize - (SincLen + 1) - CeilDiv(rate, TargetRate))
                    * TargetRate
             n == IF idx < end THEN CeilDiv(end - idx, rate) ELSE 0
         IN  n + ResamplerFrames(chunks - 1,
                                 idx + n * rate - ChunkSize * TargetRate, rate)

\* Step 3: the length of output_samples after `truncate(expected_output_len)`,
\* which shortens and never pads.
ResampledFrames(n, rate) ==
    Min(ResamplerFrames(Chunks(n), -((SincLen \div 2) * TargetRate), rate),
        ExpectedLen(n, rate))

\* Step 4: clamp to [-1.0, 1.0], scale by 32767.0 and cast to i16, which
\* truncates toward zero.
ToPcm16(v) ==
    LET p == Max(-FullScale, Min(FullScale, v)) * PcmScale
    IN  IF p >= 0 THEN p \div FullScale ELSE -((-p) \div FullScale)

\* WavSpec with a fault: the output keeps the channels and rate of the input.
WavSpecOfInput ==
    [channels |-> audio.channels, sample_rate |-> audio.rate,
     bits_per_sample |-> PcmBits, sample_format |-> "Int"]

\* Step 5: the hound::WavSpec of the output.
WavSpec ==
    [channels |-> MonoChannels, sample_rate |-> TargetRate,
     bits_per_sample |-> PcmBits, sample_format |-> "Int"]

\* convert_audio_rust
ConvertAudioRust(a) ==
    IF ~a.parses THEN Result("Err_parse", NotWav)
    ELSE IF ~Decodes(a) THEN Result("Err_bit_depth", NotWav)
    ELSE IF a.rate # TargetRate /\ RatioTooHigh(a.rate)
    THEN Result("Err_sample_rate", NotWav)
    ELSE LET n == MonoFrames(a)
             v == Downmix(DecodeSample(a), a.channels)
             resample == a.rate # TargetRate
         IN  Result("Ok",
                    Wav(WavSpec.sample_format, WavSpec.bits_per_sample,
                        WavSpec.channels, WavSpec.sample_rate,
                        IF resample THEN ResampledFrames(n, a.rate) ELSE n,
                        ToPcm16(v), resample))

\* The errors convert_audio_rust returns.
Tier2Errors == {"Err_parse", "Err_bit_depth", "Err_sample_rate"}

\* FallsBack with a fault: an error that would recur is returned at once.
FallsBackUnlessDeterministic(err) == err = "Err_parse"

\* The Err arm of `match convert_audio_rust(..)`: warn and go on to FFmpeg.
FallsBack(err) == TRUE

\* What running ffmpeg may come to: not installed, a failed exit status, or
\* the converted file.
FfmpegOutcomes == {"Err_ffmpeg_not_found", "Err_ffmpeg_failed", "Ok"}

\* Frames ffmpeg may decode from an input.
FfmpegFrames == {0, 1000}

\* The file ffmpeg writes with -ar 16000 -ac 1 -c:a pcm_s16le.
FfmpegWav(frames) == Wav("Int", PcmBits, MonoChannels, TargetRate, frames, 0, TRUE)

\* NothingToTranscribe with a fault: no early return.
AlwaysTranscribes(n) == FALSE

\* `samples.is_empty()` in the commands.
NothingToTranscribe(n) == n = 0

\* The manager, the recorder and the device negotiation are left alone.
FrontEndOnly == UNCHANGED <<vars, recorder, negotiation, meter, locking>>

\* transcribe_audio_whisper of a build without the whisper feature.
TranscribeWhisperUnavailable ==
    /\ tPc = "start"
    /\ command = Whisper /\ ~whisperFeature
    /\ tPc' = "done"
    /\ tRet' = "Err_unavailable"
    /\ UNCHANGED <<audio, command, trace, tier2, wav, samples>>
    /\ FrontEndOnly

\* convert_audio_for_whisper, tier 1: the input in the right format is
\* returned as it is.
Tier1 ==
    /\ tPc = "start"
    /\ command \in Variants
    /\ trace' = <<"tier1">>
    /\ IF FormatIsValid(audio)
       THEN wav' = Result("Ok", audio) /\ tPc' = "extract"
       ELSE tPc' = "tier2" /\ UNCHANGED wav
    /\ UNCHANGED <<audio, command, tier2, samples, tRet>>
    /\ FrontEndOnly

\* convert_audio_for_whisper, tier 2: Ok is returned, Err goes on to tier 3.
Tier2 ==
    /\ tPc = "tier2"
    /\ LET r == ConvertAudioRust(audio)
       IN  /\ tier2' = r
           /\ trace' = trace \o <<"tier2">> \o
                       (IF r.res = "Ok" /\ r.bytes.resampled
                        THEN <<"resampler">> ELSE <<>>)
           /\ IF r.res = "Ok"
              THEN wav' = r /\ tPc' = "extract" /\ UNCHANGED tRet
              ELSE IF FallsBack(r.res)
              THEN tPc' = "tier3" /\ UNCHANGED <<wav, tRet>>
              ELSE wav' = r /\ tPc' = "done" /\ tRet' = r.res
    /\ UNCHANGED <<audio, command, samples>>
    /\ FrontEndOnly

\* convert_audio_for_whisper, tier 3: ffmpeg; on Err the command returns it.
Tier3(outcome, frames) ==
    /\ tPc = "tier3"
    /\ trace' = trace \o <<"tier3">>
    /\ IF outcome = "Ok"
       THEN /\ wav' = Result("Ok", FfmpegWav(frames))
            /\ tPc' = "extract"
            /\ UNCHANGED tRet
       ELSE /\ wav' = Result(outcome, NotWav)
            /\ tPc' = "done"
            /\ tRet' = outcome
    /\ UNCHANGED <<audio, command, tier2, samples>>
    /\ FrontEndOnly

\* extract_samples_from_wav: every sample of the data chunk is read as i16.
ExtractSamples ==
    /\ tPc = "extract"
    /\ LET w == wav.bytes
           n == w.frames * w.channels
       IN  IF ~w.parses \/ (n > 0 /\ (w.format = "Float" \/ w.bits > PcmBits))
           THEN tPc' = "done" /\ tRet' = "Err_read" /\ UNCHANGED samples
           ELSE tPc' = "check" /\ samples' = n /\ UNCHANGED tRet
    /\ UNCHANGED <<audio, command, trace, tier2, wav>>
    /\ FrontEndOnly

\* `if samples.is_empty() { return Ok(String::new()) }`
EmptyCheck ==
    /\ tPc = "check"
    /\ IF NothingToTranscribe(samples)
       THEN tPc' = "done" /\ tRet' = "Ok_empty_text"
       ELSE tPc' = "load" /\ UNCHANGED tRet
    /\ UNCHANGED <<audio, command, trace, tier2, wav, samples>>
    /\ FrontEndOnly

\* The command calls model_manager.get_or_load_<variant>: from here on it is
\* a command of the manager.
TranscribeLoad(p) ==
    /\ tPc = "load"
    /\ last.op = "new"
    /\ GetOrLoad(command, p)

\* A command is called with some audio; the manager is new and has not been
\* used for IdleTimeout.
NormInit ==
    /\ RecorderNew
    /\ NegotiationIdle
    /\ MeterIdle
    /\ LockingIdle
    /\ audio \in Inputs
    /\ command \in AllVariants
    /\ tPc = "start"
    /\ trace = <<>>
    /\ tier2 = Pending
    /\ wav = Pending
    /\ samples = NotExtracted
    /\ tRet = "Pending"
    /\ whisperFeature \in BOOLEAN
    /\ engine = NoEngine
    /\ current_model_path = None
    /\ now = IdleTimeout
    /\ last_activity = 0
    /\ engineLocked = FALSE
    /\ poisoned = FALSE
    /\ ready = EmptyBag
    /\ inferring = EmptyBag
    /\ idlePc = "start"
    /\ idleLa = 0
    /\ live = 0
    /\ peakLive = 0
    /\ calls = <<>>
    /\ last = Did("new", "Ok")
    /\ loadFailed = FALSE

NormNext ==
    \/ TranscribeWhisperUnavailable
    \/ Tier1
    \/ Tier2
    \/ \E outcome \in FfmpegOutcomes, frames \in FfmpegFrames : Tier3(outcome, frames)
    \/ ExtractSamples
    \/ EmptyCheck
    \/ \E p \in Paths : TranscribeLoad(p)

NormSpec == NormInit /\ [][NormNext]_allVars

\* -------------------------------------------------- device negotiation
\* Hz per unit of the negotiation's rates: a u32 of Hz is U32Range units.
RateUnit == 64

\* 2^32 Hz and 2^31 Hz in units of RateUnit.
U32Range == 67108864
I32Range == 33554432

\* The sample formats a device may report; the first three are taken.
SampleFormats == {"F32", "I16", "U16", "I32"}
SupportedFormats == {"F32", "I16", "U16"}

\* 8 kHz, 16 kHz, 24 kHz and 48 kHz, and the largest rate a u32 holds.
Rate8k == 8000 \div RateUnit
Rate16k == NegotiatedRate \div RateUnit
Rate24k == 24000 \div RateUnit
Rate48k == 48000 \div RateUnit
RateMax == U32Range - 1

\* The rate ranges of the configs a device reports.
RateRanges ==
    {<<Rate8k, Rate8k>>, <<Rate8k, Rate16k>>, <<Rate16k, Rate48k>>,
     <<Rate48k, Rate48k>>}

DeviceConfigs ==
    {Config(c, r[1], r[2], f) : c \in {1, 2}, r \in RateRanges,
                                f \in SampleFormats}

\* What supported_input_configs() may yield.
ConfigLists == UNION {[1..n -> DeviceConfigs] : n \in 0..MaxConfigs}

\* The preferred_sample_rate a caller may pass.
PreferredRates == {NoneVal, Some(Rate24k), Some(RateMax)}

\* `preferred_sample_rate.unwrap_or(16000)`
TargetSampleRate(pref) == IF pref = NoneVal THEN Rate16k ELSE pref[1]

\* `x as i32` of a u32.
AsI32(x) == IF x >= I32Range THEN x - U32Range ELSE x

\* i32 arithmetic that wraps, `abs()`, and `as u32` of an i32.
WrapI32(d) == ((d + I32Range) % U32Range) - I32Range
AbsI32(d) == IF d < 0 THEN WrapI32(-d) ELSE d
AsU32(d) == d % U32Range

\* `(closest_rate as i32 - target_sample_rate as i32).abs() as u32`
RateDiff(closest, target) ==
    AsU32(AbsI32(WrapI32(AsI32(closest) - AsI32(target))))

\* The indices, in order, of compatible_configs in configs.
Compatible(cfgs) == {i \in 1..Len(cfgs) : cfgs[i].format \in SupportedFormats}

\* `min_rate <= target_sample_rate && max_rate >= target_sample_rate`
InRange(c, target) == c.min <= target /\ c.max >= target

\* The least index of a non-empty set of indices: the first a loop meets.
First(is) == CHOOSE i \in is : \A j \in is : i <= j

\* closest_rate of the third loop.
ClosestRate(c, target) ==
    IF target < c.min THEN c.min
    ELSE IF target > c.max THEN c.max
    ELSE target

\* The third loop: over the mono configs from index i on, best is replaced
\* only by a strictly smaller diff.
RECURSIVE BestMono(_, _, _, _, _)
BestMono(cfgs, target, i, best, bestDiff) ==
    IF i > Len(cfgs) THEN best
    ELSE LET c == cfgs[i]
             diff == RateDiff(ClosestRate(c, target), target)
         IN  IF i \in Compatible(cfgs) /\ c.channels = 1 /\ diff < bestDiff
             THEN BestMono(cfgs, target, i + 1,
                           [res |-> "Ok", index |-> i,
                            rate |-> ClosestRate(c, target)], diff)
             ELSE BestMono(cfgs, target, i + 1, best, bestDiff)

\* FallbackRate with a fault: the fallback asks for the target rate as it is.
FallbackRateUnclamped(c, target) == target

\* The rate of the `best_config.is_none()` fallback.
FallbackRate(c, target) == IF InRange(c, target) THEN target ELSE c.min

\* get_optimal_config over the configs the device reported.
GetOptimalConfig(cfgs, pref) ==
    LET target == TargetSampleRate(pref)
        comp == Compatible(cfgs)
        monoInRange == {i \in comp : cfgs[i].channels = 1 /\ InRange(cfgs[i], target)}
        anyInRange == {i \in comp : InRange(cfgs[i], target)}
        best == BestMono(cfgs, target, 1, Unnegotiated, U32Range)
    IN  IF cfgs = <<>> THEN [res |-> "Err_no_configs", index |-> 0, rate |-> 0]
        ELSE IF comp = {}
        THEN [res |-> "Err_no_compatible_format", index |-> 0, rate |-> 0]
        ELSE IF monoInRange # {}
        THEN [res |-> "Ok", index |-> First(monoInRange), rate |-> target]
        ELSE IF anyInRange # {}
        THEN [res |-> "Ok", index |-> First(anyInRange), rate |-> target]
        ELSE IF best # Unnegotiated THEN best
        ELSE [res |-> "Ok", index |-> First(comp),
              rate |-> FallbackRate(cfgs[First(comp)], target)]

\* init_session calls get_optimal_config for the device it found.
Negotiate ==
    /\ optimal = Unnegotiated
    /\ optimal' = GetOptimalConfig(configs, preferred)
    /\ UNCHANGED <<configs, preferred>>
    /\ UNCHANGED <<vars, recorder, pipeline, meter, locking>>

\* A device with some list of configs, a caller with some preferred rate.
ConfigInit ==
    /\ RecorderNew
    /\ PipelineIdle
    /\ MeterIdle
    /\ LockingIdle
    /\ configs \in ConfigLists
    /\ preferred \in PreferredRates
    /\ optimal = Unnegotiated
    /\ whisperFeature = TRUE
    /\ engine = NoEngine
    /\ current_model_path = None
    /\ now = 0
    /\ last_activity = 0
    /\ engineLocked = FALSE
    /\ poisoned = FALSE
    /\ ready = EmptyBag
    /\ inferring = EmptyBag
    /\ idlePc = "start"
    /\ idleLa = 0
    /\ live = 0
    /\ peakLive = 0
    /\ calls = <<>>
    /\ last = Did("new", "Ok")
    /\ loadFailed = FALSE

ConfigNext == Negotiate

ConfigSpec == ConfigInit /\ [][ConfigNext]_allVars

\* -------------------------------------------------------- level meter
\* const NUM_BARS, AMPLITUDE_MULTIPLIER
NUM_BARS == 9
AMPLITUDE_MULTIPLIER == 8

\* Samples of the level buffer are numerators over FullScale, their squares
\* are counted in 1/16384 and rms values and levels in 1/128, rounded down.
SquareUnit == 65536

\* const MAX_AMPLITUDE: 1.0, in the unit of the levels.
MAX_AMPLITUDE == 128

\* Lengths of the `data` slice the host hands to one callback call.
FrameLens == {1, FrameLen, 600}

\* Sample values a stream of each format delivers: f32 as numerators over
\* FullScale (0.0, 1/128, 1.0, -1.0, 1.25), i16 and u16 as they are.
RawSamples(format) ==
    IF format = "F32" THEN {0, 256, FullScale, -FullScale, 40960}
    ELSE IF format = "I16" THEN {0, -4096, FullScale - 1, -FullScale}
    ELSE {FullScale, FullScale + 256, 2 * FullScale - 1, 0}

\* One `data` slice: len samples of one value; nan marks f32 samples that
\* are not a number.
Frames(format) ==
    {[len |-> n, raw |-> r, nan |-> FALSE] :
        n \in FrameLens, r \in RawSamples(format)}
    \cup (IF format = "F32"
          THEN {[len |-> n, raw |-> 0, nan |-> TRUE] : n \in FrameLens}
          ELSE {})

\* What the callback pushes for one sample: the f32 itself,
\* `sample as f32 / 32768.0`, or `(sample as f32 - 32768.0) / 32768.0`.
LevelSample(format, raw) ==
    IF format = "U16" THEN raw - FullScale ELSE raw

\* extend_from_slice(data), or the push loop, for one frame.
Pushed(buffer, format, frame) ==
    Append(buffer, [len |-> frame.len, v |-> LevelSample(format, frame.raw),
                    nan |-> frame.nan])

\* buffer.len()
RECURSIVE BufferLen(_)
BufferLen(buffer) ==
    IF buffer = <<>> THEN 0 ELSE Head(buffer).len + BufferLen(Tail(buffer))

\* Samples of the run at offset..offset+len that lie in buffer[start..end].
Overlap(offset, len, start, end) ==
    Max(0, Min(offset + len, end) - Max(offset, start))

\* chunk.iter().map(|&s| s * s).sum() over buffer[start..end], the runs of
\* the buffer starting at offset.
RECURSIVE SumOfSquares(_, _, _, _)
SumOfSquares(buffer, offset, start, end) ==
    IF buffer = <<>> THEN 0
    ELSE LET run == Head(buffer)
         IN  Overlap(offset, run.len, start, end)
                 * ((run.v * run.v) \div SquareUnit)
             + SumOfSquares(Tail(buffer), offset + run.len, start, end)

\* Whether that sum is NaN: some sample of the chunk is.
RECURSIVE SumIsNaN(_, _, _, _)
SumIsNaN(buffer, offset, start, end) ==
    /\ buffer # <<>>
    /\ \/ Head(buffer).nan /\ Overlap(offset, Head(buffer).len, start, end) > 0
       \/ SumIsNaN(Tail(buffer), offset + Head(buffer).len, start, end)

\* f32::sqrt, rounded down.
Sqrt(x) == CHOOSE r \in 0..x : r * r <= x /\ (r + 1) * (r + 1) > x

\* Amplified with a fault: the level is not clamped.
AmplifiedUnclamped(rms) == rms * AMPLITUDE_MULTIPLIER

\* (rms * AMPLITUDE_MULTIPLIER).min(MAX_AMPLITUDE)
Amplified(rms) == Min(rms * AMPLITUDE_MULTIPLIER, MAX_AMPLITUDE)

\* One bar: the rms of buffer[start..end], amplified.  f32::min returns the
\* other argument when one is NaN, so a NaN rms gives MAX_AMPLITUDE.
BarLevel(buffer, start, end) ==
    IF SumIsNaN(buffer, 0, start, end) THEN MAX_AMPLITUDE
    ELSE Amplified(Sqrt(SumOfSquares(buffer, 0, start, end) \div (end - start)))

\* compute_audio_levels
ComputeAudioLevels(buffer) ==
    LET len == BufferLen(buffer)
        chunk_size == len \div NUM_BARS
    IN  IF len = 0 \/ chunk_size = 0 THEN NoneVal
        ELSE Some([i \in 1..NUM_BARS |->
                    BarLevel(buffer, (i - 1) * chunk_size,
                             Min(i * chunk_size, len))])

\* One call of the stream's data callback with the capture flag as loaded,
\* from the level buffer's lock to the end.  The buffer holds at most
\* MaxFrames frames short of a full window.
LevelCallback(flag, frame) ==
    /\ frame \in Frames(streamFormat)
    /\ IF flag
       THEN LET buffer == Pushed(level_buffer, streamFormat, frame)
            IN  IF BufferLen(buffer) >= LEVEL_BUFFER_SIZE
                THEN /\ lastWindow' = buffer
                     /\ lastLevels' = ComputeAudioLevels(buffer)
                     /\ level_buffer' = <<>>
                ELSE /\ Len(level_buffer) < MaxFrames
                     /\ level_buffer' = buffer
                     /\ lastWindow' = <<>>
                     /\ lastLevels' = NoneVal
       ELSE /\ lastWindow' = <<>>
            /\ lastLevels' = NoneVal
            /\ UNCHANGED level_buffer
    /\ UNCHANGED <<streamFormat, vars, recorder, pipeline, negotiation, locking>>

\* A stream of some supported format has been built: its buffer is empty.
MeterInit ==
    /\ RecorderNew
    /\ LockingIdle
    /\ PipelineIdle
    /\ NegotiationIdle
    /\ streamFormat \in SupportedFormats
    /\ level_buffer = <<>>
    /\ lastWindow = <<>>
    /\ lastLevels = NoneVal
    /\ whisperFeature = TRUE
    /\ engine = NoEngine
    /\ current_model_path = None
    /\ now = 0
    /\ last_activity = 0
    /\ engineLocked = FALSE
    /\ poisoned = FALSE
    /\ ready = EmptyBag
    /\ inferring = EmptyBag
    /\ idlePc = "start"
    /\ idleLa = 0
    /\ live = 0
    /\ peakLive = 0
    /\ calls = <<>>
    /\ last = Did("new", "Ok")
    /\ loadFailed = FALSE

MeterNext ==
    \E flag \in BOOLEAN, frame \in Frames(streamFormat) :
        LevelCallback(flag, frame)

MeterSpec == MeterInit /\ [][MeterNext]_allVars

\* --------------------------------------------- manager: lock order
\* A statement that takes a mutex, and the end of the scope of its guard.
Lock(l) == [do |-> "lock", lock |-> l]
Unlock(l) == [do |-> "unlock", lock |-> l]

\* get_or_load_<v> that returns Ok: engine_guard, current_path_guard, the
\* match and the load, last_activity_guard; the guards are dropped on return
\* in the reverse order of their declaration.
GetOrLoadOk ==
    <<Lock("engine"), Lock("current_model_path"), Lock("last_activity"),
      Unlock("last_activity"), Unlock("current_model_path"), Unlock("engine")>>

\* get_or_load_<v> whose load fails: `?` returns before last_activity.
GetOrLoadErr ==
    <<Lock("engine"), Lock("current_model_path"),
      Unlock("current_model_path"), Unlock("engine")>>

\* transcribe_audio_<v> from get_or_load_<v> on: then engine_arc.lock(), held
\* to the end of the block around transcribe_samples, also when it panics.
TranscribeAudio == GetOrLoadOk \o <<Lock("engine"), Unlock("engine")>>

\* unload_if_idle that finds the manager active: the guard of last_activity
\* is a temporary of the first statement.
UnloadIfIdleActive == <<Lock("last_activity"), Unlock("last_activity")>>

\* UnloadEngine with a fault: the path is locked before the engine.
UnloadEnginePathFirst ==
    <<Lock("current_model_path"), Lock("engine"),
      Unlock("engine"), Unlock("current_model_path")>>

\* What unload_model and the body of the if of unload_if_idle do:
\* engine_guard, take and unload, current_path_guard inside `if let`.
UnloadEngine ==
    <<Lock("engine"), Lock("current_model_path"),
      Unlock("current_model_path"), Unlock("engine")>>

\* unload_if_idle that finds the manager idle.
UnloadIfIdle == UnloadIfIdleActive \o UnloadEngine

\* The calls a thread may make and the lock statements of each.
Statements(call) ==
    IF call = "get_or_load" THEN GetOrLoadOk
    ELSE IF call = "get_or_load_err" THEN GetOrLoadErr
    ELSE IF call = "transcribe_audio" THEN TranscribeAudio
    ELSE IF call = "unload_if_idle_active" THEN UnloadIfIdleActive
    ELSE IF call = "unload_if_idle" THEN UnloadIfIdle
    ELSE UnloadEngine

Calls == {"get_or_load", "get_or_load_err", "transcribe_audio",
          "unload_if_idle_active", "unload_if_idle", "unload_model"}

LockingOnly == UNCHANGED <<vars, recorder, pipeline, negotiation, meter>>

\* A thread enters a call.
Enter(t, call) ==
    /\ at[t].call = "none"
    /\ at' = [at EXCEPT ![t] = [call |-> call, pc |-> 1]]
    /\ UNCHANGED lockOwner
    /\ LockingOnly

\* The statement thread t is at.
Statement(t) == Statements(at[t].call)[at[t].pc]

\* Mutex::lock returns when no guard of the mutex is alive.
MayRun(t) ==
    /\ at[t].call # "none"
    /\ Statement(t).do = "lock" => lockOwner[Statement(t).lock] = 0

\* A thread executes the statement it is at; past the last one the call
\* returns.
Run(t) ==
    /\ MayRun(t)
    /\ lockOwner' = [lockOwner EXCEPT ![Statement(t).lock] =
                        IF Statement(t).do = "lock" THEN t ELSE 0]
    /\ at' = [at EXCEPT ![t] =
                 IF at[t].pc = Len(Statements(at[t].call))
                 THEN [call |-> "none", pc |-> 0]
                 ELSE [call |-> at[t].call, pc |-> at[t].pc + 1]]
    /\ LockingOnly

LockInit ==
    /\ RecorderNew
    /\ PipelineIdle
    /\ NegotiationIdle
    /\ MeterIdle
    /\ lockOwner = [l \in Locks |-> 0]
    /\ at = [t \in Threads |-> [call |-> "none", pc |-> 0]]
    /\ whisperFeature = TRUE
    /\ engine = NoEngine
    /\ current_model_path = None
    /\ now = 0
    /\ last_activity = 0
    /\ engineLocked = FALSE
    /\ poisoned = FALSE
    /\ ready = EmptyBag
    /\ inferring = EmptyBag
    /\ idlePc = "start"
    /\ idleLa = 0
    /\ live = 0
    /\ peakLive = 0
    /\ calls = <<>>
    /\ last = Did("new", "Ok")
    /\ loadFailed = FALSE

LockNext ==
    \/ \E t \in Threads, call \in Calls : Enter(t, call)
    \/ \E t \in Threads : Run(t)

LockSpec == LockInit /\ [][LockNext]_allVars

\* ------------------------------------------------------------ properties
\* The get_or_load_<v>(p) call of the step returned Ok(handle).
ReturnsHandle(v, p) ==
    last'.res = "Ok" /\ ready' = ready (+) One(Request(v, p))

\* The step loads, or tries to load, a model.
CallsLoad == \E i \in 1..Len(calls') : calls'[i] \in {"load_ok", "load_err"}

\* C1: when the slot holds variant v loaded from path p, get_or_load(v, p)
\* returns the handle and calls no load.
C1_CachedEngineIsReturned ==
    [][\A v \in AllVariants, p \in Paths :
          (engine = EngineOf(v, p) /\ GetOrLoad(v, p))
              => (ReturnsHandle(v, p) /\ ~CallsLoad)]_vars

\* While the engine mutex is not poisoned, a get_or_load for the engine in the
\* slot returns it and calls no load (the statement of C1 for that case).
CachedEngineIsReturnedUnlessPoisoned ==
    [][\A v \in AllVariants, p \in Paths :
          (~poisoned /\ engine = EngineOf(v, p) /\ GetOrLoad(v, p))
              => (ReturnsHandle(v, p) /\ calls' = <<>> /\ engine' = engine)]_vars

\* C2: whenever get_or_load(v, p) returns success, the slot then holds an
\* engine of variant v loaded from p.
C2_SuccessMeansRequestedEngine ==
    [][\A v \in AllVariants, p \in Paths :
          (GetOrLoad(v, p) /\ ReturnsHandle(v, p))
              => engine' = EngineOf(v, p)]_vars

\* C3: with the engine mutex poisoned by a panicked inference, the next
\* get_or_load with a valid path reloads the engine and succeeds.
C3_NextRequestReloadsAfterPanic ==
    [][\A v \in AllVariants, p \in ValidPaths :
          (poisoned /\ GetOrLoad(v, p))
              => (ReturnsHandle(v, p) /\ engine' = EngineOf(v, p))]_vars

\* A step of an operation that acquires the engine mutex.
AcquiresEngineLock ==
    \/ \E v \in AllVariants, p \in Paths : GetOrLoad(v, p)
    \/ \E r \in Requests : LockForInference(r)
    \/ UnloadModel
    \/ IdleUnload

\* C4: every operation that acquires a poisoned engine mutex resets the slot
\* to Unloaded and does not return the poisoning as an error.
C4_PoisonIsRecoveredLocally ==
    [][(poisoned /\ AcquiresEngineLock)
          => (engine' = NoEngine /\ last'.res # "Err_poisoned")]_vars

\* The step calls an engine load that fails.
LoadFails == \E i \in 1..Len(calls') : calls'[i] = "load_err"

\* C5: a get_or_load whose engine load fails returns the load error and leaves
\* the slot empty, and the next get_or_load with a valid path loads and
\* succeeds.
C5_FailedLoadLeavesCleanSlot ==
    [][(loadFailed \/ LoadFails) =>
          \A v \in AllVariants, p \in Paths :
              GetOrLoad(v, p) =>
                  /\ LoadFails
                        => /\ last'.res = "Err_load"
                           /\ ready' = ready
                           /\ engine' = NoEngine
                           /\ live' = 0
                           /\ loadFailed'
                  /\ (loadFailed /\ p \in ValidPaths)
                        => /\ ReturnsHandle(v, p)
                           /\ calls' = <<"load_ok">>
                           /\ engine' = EngineOf(v, p)]_vars

\* C5 witness: a get_or_load has loaded and succeeded right after one whose
\* load failed.
C5_Witness ==
    /\ last.op = "get_or_load" /\ last.res = "Ok" /\ last.retry
    /\ calls = <<"load_ok">>
    /\ engine # NoEngine

\* C6: a get_or_load whose path differs from the loaded engine's path makes
\* exactly one unload followed by exactly one load.
C6_DifferentPathUnloadsThenLoads ==
    [][\A v \in AllVariants, p \in Paths :
          (engine # NoEngine /\ engine.from # p /\ GetOrLoad(v, p))
              => calls' \in {<<"unload", "load_ok">>, <<"unload", "load_err">>}]_vars

\* While the engine mutex is not poisoned, a get_or_load with another path
\* unloads once, then loads once (the statement of C6 for that case).
DifferentPathUnloadsThenLoadsUnlessPoisoned ==
    [][\A v \in AllVariants, p \in Paths :
          (~poisoned /\ engine # NoEngine /\ engine.from # p /\ GetOrLoad(v, p))
              => calls' \in {<<"unload", "load_ok">>, <<"unload", "load_err">>}]_vars

\* C7: at most one engine instance is loaded at any time, also inside an
\* operation that swaps engines; the slot's engine is the loaded one.
C7_AtMostOneEngineLoaded ==
    /\ live <= 1
    /\ peakLive <= 1
    /\ (engine # NoEngine) <=> (live = 1)

\* C7 witness: a get_or_load has swapped a loaded engine for another.
C7_Witness ==
    /\ last.op = "get_or_load"
    /\ calls = <<"unload", "load_ok">>
    /\ live = 1

\* C8: at most one inference call is executing at any time.
C8_OneInferenceAtATime ==
    BagCardinality(inferring) <= 1

\* C8 witness: one command runs inference while another holds the handle and
\* waits for the mutex.
C8_Witness ==
    /\ BagCardinality(inferring) = 1
    /\ BagCardinality(ready) >= 1
    /\ engineLocked

\* C9: unload_if_idle unloads the engine and clears slot and path when the
\* elapsed time it computed exceeds the idle timeout; otherwise engine, path
\* and timestamp stay as they are.
C9_IdleUnloadClearsWhenIdle ==
    [][/\ IdleUnload
          => /\ engine' = NoEngine
             /\ current_model_path' = None
             /\ calls' = IF engine # NoEngine THEN <<"unload">> ELSE <<>>
       /\ (IdleCheck /\ ~IsIdle(DurationSince(idleLa))) => UNCHANGED mgr]_vars

\* While the engine mutex is not poisoned, unload_if_idle unloads exactly when
\* the elapsed time it computed exceeds the timeout (the statement of C9 for
\* that case).
IdleUnloadClearsUnlessPoisoned ==
    [][/\ (IdleUnload /\ ~poisoned)
          => /\ engine' = NoEngine
             /\ current_model_path' = None
             /\ calls' = IF engine # NoEngine THEN <<"unload">> ELSE <<>>
       /\ (IdleCheck /\ ~IsIdle(DurationSince(idleLa)))
          => (UNCHANGED mgr /\ idlePc' = "start")
       /\ (IdleCheck /\ idlePc' = "lock") => DurationSince(idleLa) > IdleTimeout]_vars

\* C10: unload() leaves the manager Unloaded from any state, unloading the
\* engine exactly once if there is one; with nothing loaded it changes nothing.
C10_UnloadAlwaysUnloads ==
    [][UnloadModel
          => /\ engine' = NoEngine
             /\ current_model_path' = None
             /\ calls' = IF engine # NoEngine THEN <<"unload">> ELSE <<>>
             /\ (engine = NoEngine /\ current_model_path = None) => UNCHANGED mgr]_vars

\* While the engine mutex is not poisoned, unload_model leaves the manager
\* Unloaded (the statement of C10 for that case).
UnloadAlwaysUnloadsUnlessPoisoned ==
    [][(UnloadModel /\ ~poisoned)
          => /\ engine' = NoEngine
             /\ current_model_path' = None
             /\ calls' = IF engine # NoEngine THEN <<"unload">> ELSE <<>>
             /\ (engine = NoEngine /\ current_model_path = None) => UNCHANGED mgr]_vars

\* The step is a get_or_load_* call that returns Ok(handle): only such a step
\* adds a command to those that hold the handle.
GetOrLoadReturnsOk ==
    /\ last'.op = "get_or_load" /\ last'.res = "Ok"
    /\ \E r \in Requests : ready' = ready (+) One(r)

\* C11: every get_or_load that returns success sets last_activity to the
\* current time, whether or not it loaded a model; a get_or_load that fails
\* leaves last_activity unchanged, as does every other step.
C11_SuccessRefreshesActivity ==
    [][/\ GetOrLoadReturnsOk => last_activity' = now
       /\ (last_activity' # last_activity) => GetOrLoadReturnsOk]_vars

\* C11 witness: a get_or_load that found its engine in the slot and loaded
\* nothing has moved last_activity to a later clock reading.
C11_Witness ==
    /\ last.op = "get_or_load" /\ last.res = "Ok"
    /\ calls = <<>>
    /\ last_activity = now
    /\ now > 0

\* The recorded path is the path the slot's engine was loaded from.
PathMatchesEngine ==
    engine # NoEngine => current_model_path = engine.from
\* ------------------------------------------------- recorder: properties
\* Scheduling: a thread that can take its next step takes it in the end.
\* The worker thread, by the OS scheduler.
WorkerStep ==
    \/ \E ok \in BOOLEAN : WorkerBuild(ok)
    \/ \E ok \in BOOLEAN : WorkerPlay(ok)
    \/ WorkerRecv
    \/ WorkerAck

\* The audio callback, once called, runs to its end.
CallbackStep == CallbackLock \/ CallbackWrite \/ CallbackLevel

\* The command that holds the recorder goes on once what it waits for is
\* there; a mutex that keeps becoming free is acquired in the end.
CallerStep ==
    \/ AwaitStart
    \/ AwaitStop
    \/ StopLock
    \/ \E ok \in BOOLEAN : StopFinalize(ok)
    \/ AwaitCancel
    \/ CancelDelete
    \/ CloseJoin
    \/ CloseLock
    \/ CloseFinalize
    \/ \E id \in Ids, outcome \in InitOutcomes : InitCreate(id, outcome)

RecFairSpec ==
    /\ RecSpec
    /\ WF_allVars(WorkerStep)
    /\ WF_allVars(CallbackStep)
    /\ SF_allVars(CallerStep)

\* The step on which start_recording returns.
StartReturns == (StartRecording \/ AwaitStart) /\ callerPc' = "idle"

\* The step on which stop_recording returns.
StopReturns ==
    /\ StopRecording \/ AwaitStop \/ StopLock \/ \E ok \in BOOLEAN : StopFinalize(ok)
    /\ callerPc' = "idle"

\* C12: when start_recording returns success the worker has already set the
\* capture flag to true, and when stop_recording returns success the worker
\* has already set it to false.
C12_AckMeansFlagToggled ==
    [][/\ (StartReturns /\ ret'.res = "Ok") => is_recording'
       /\ (StopReturns /\ ret'.res = "Ok") => ~is_recording']_allVars

\* C12 as amended: the same for start_recording, and for a stop_recording
\* that returns success on a session that has its command channel; and a
\* caller never holds an acknowledgement the flag does not yet match.
C12_AckMeansFlagToggledInSession ==
    [][/\ (StartReturns /\ ret'.res = "Ok") => is_recording'
       /\ (StopReturns /\ ret'.res = "Ok" /\ cmd_tx # None) => ~is_recording'
       /\ (reply' = "acked") => (is_recording' = (callerOp' = "start_recording"))
      ]_allVars

\* C12 witness: on a session with frames written, stop_recording has returned
\* success through the worker, and the flag is false.
C12_Witness ==
    /\ ret.op = "stop_recording" /\ ret.res = "Ok"
    /\ callerPc = "idle"
    /\ cmd_tx # None
    /\ sinkFrames > 0
    /\ ~is_recording

\* C13: stop_recording never blocks for ever: in every state, a call that
\* is under way returns.
C13_StopRecordingReturns ==
    (callerOp = "stop_recording")
        ~> (callerPc = "idle" /\ ret.op = "stop_recording"
            /\ ret.res \in {"Ok", "Err_send", "Err_recv", "Err_finalize"})

\* C13 witness: stop_recording sent its command to a worker that then
\* returned on a build or play error, and came back with an error.
C13_Witness ==
    /\ ret.op = "stop_recording" /\ ret.res = "Err_recv"
    /\ callerPc = "idle"
    /\ workerExit \in {"build_failed", "play_failed"}

\* C14: the audio callback's write to the sink and a finalize of the sink
\* never execute at the same time.
C14_WriteExcludesFinalize ==
    ~(cbPc = "writing" /\ CallerHoldsWriter)

\* C14 witness: stop_recording is finalizing the sink while a callback that
\* read the flag as true waits for the writer mutex.
C14_Witness ==
    /\ callerPc = "stop_finalize"
    /\ cbPc = "locking"

\* C15: no audio callback writes a frame to the sink after stop_recording
\* has finalized it, also not one that read the flag before it was cleared.
C15_NoWriteAfterFinalize ==
    [][CallbackWrite => ~lateFinalize]_allVars

\* C16: get_current_recording_id returns the session id from an acknowledged
\* start to the next stop, and None at any other time.
C16_IdOnlyWhileRecording ==
    [][GetCurrentRecordingId => ret'.val = activeId]_allVars

\* C16 witness: get_current_recording_id has returned the id "r.x" of the
\* session that is recording.
C16_Witness ==
    /\ ret.op = "get_current_recording_id"
    /\ ret.val = Some(<<"r", ".", "x">>)
    /\ is_recording
    /\ callerPc = "idle"

\* No session: nothing that init_session stores is in place.
Closed ==
    /\ cmd_tx = None
    /\ worker_handle = None
    /\ writer = None
    /\ file_path = NoPath
    /\ sample_rate = 0
    /\ channels = 0

\* A step of close_session or cancel_recording.
TeardownStep ==
    \/ CloseSession
    \/ CancelRecording
    \/ /\ callerOp \in {"close_session", "cancel_recording"}
       /\ AwaitCancel \/ CancelDelete \/ CloseJoin \/ CloseLock \/ CloseFinalize

\* C17: close_session and cancel_recording leave no session behind, and on a
\* recorder that has no session they return success and change nothing.
C17_TeardownIsIdempotent ==
    [][TeardownStep =>
          /\ callerPc' = "idle" => (Closed' /\ ret'.res = "Ok")
          /\ Closed =>
                /\ Closed'
                /\ callerPc' \notin {"cancel_wait", "close_finalize"}
                /\ UNCHANGED <<is_recording, workerPc, workerExit, cmdQueue,
                               reply, cbPc, sinkFinalized, sinkFrames, files>>
      ]_allVars

\* C17 witness: a second close_session in a row is under way on the recorder
\* the first one closed, whose worker has returned on Shutdown.
C17_Witness ==
    /\ ret.op = "close_session"
    /\ callerOp = "close_session" /\ callerPc = "close_lock"
    /\ Closed
    /\ workerExit = "shutdown"

C19_StartNeedsSession ==
    [][(StartRecording /\ cmd_tx = None) =>
          /\ ret' = Returned("start_recording", "Err_no_session", NoneVal)
          /\ UNCHANGED <<cmd_tx, worker_handle, writer, is_recording,
                         sample_rate, channels, file_path, workerPc, workerExit,
                         cmdQueue, reply, cbPc, sinkFinalized, sinkFrames, files,
                         callerPc, callerOp>>]_allVars

\* C19 witness: start_recording has returned the no-session error after a
\* session was closed.
C19_Witness ==
    /\ ret = Returned("start_recording", "Err_no_session", NoneVal)
    /\ workerExit = "shutdown"
    /\ callerPc = "idle"

\* The worker of the session has returned on a build or play error.
WorkerFailed == workerExit \in {"build_failed", "play_failed"}

\* C20: once the worker has returned on a build or play error, every
\* start_recording and stop_recording on that session returns an error and
\* none hangs; only a new init_session brings a worker back, and the worker
\* it spawns is a fresh one.
C20_FailedWorkerNeedsReinit ==
    /\ [][/\ (WorkerFailed /\ cmd_tx # None /\ (StartReturns \/ StopReturns))
                => ret'.res \in {"Err_send", "Err_recv"}
          /\ (WorkerFailed /\ ~WorkerFailed')
                => (callerPc = "init_create" /\ ret'.res = "Ok")
          /\ (callerPc = "init_create" /\ ret'.res = "Ok")
                => (workerPc' = "build" /\ cmdQueue' = <<>> /\ ~is_recording')
         ]_allVars
    /\ (callerOp \in {"start_recording", "stop_recording"}) ~> (callerPc = "idle")

\* C20 witness: after a worker had failed, a session is recording: its
\* start_recording returned success and a frame has been written.
C20_Witness ==
    /\ failedBefore
    /\ is_recording
    /\ activeId # NoneVal
    /\ sinkFrames > 0
    /\ ret = Returned("start_recording", "Ok", NoneVal)
\* A worker thread has been spawned and has not returned.
WorkerRunning == workerPc \in {"build", "play", "recv", "ack"}

\* A sink has been created (with the first worker) and finalize has not run
\* on the latest one.
SinkOpen == workerPc # "none" /\ ~sinkFinalized

\* No session is left behind: no field holds a handle, no worker thread
\* runs, no sink is left open.
NothingOwned ==
    /\ cmd_tx = None /\ worker_handle = None /\ writer = None
    /\ ~WorkerRunning
    /\ ~SinkOpen

C22_FrameDroppedOrWritten ==
    [][/\ (CallbackBegin /\ ~is_recording) =>
            /\ cbPc' = "idle"
            /\ UNCHANGED <<sinkFrames, sinkFinalized, files, levelWindow,
                           levelsEmitted>>
       /\ (CallbackBegin /\ is_recording) => cbPc' = "locking"
       /\ (cbPc = "locking" /\ cbPc' # cbPc) => cbPc' = "writing"
       /\ (cbPc = "writing" /\ cbPc' # cbPc) =>
            /\ sinkFrames' = sinkFrames + 1
            /\ cbPc' = "leveling"
       /\ (cbPc = "leveling" /\ cbPc' # cbPc) =>
            /\ cbPc' = "idle"
            /\ UNCHANGED sinkFrames
            /\ \/ levelWindow' = levelWindow + FrameLen
               \/ /\ levelWindow + FrameLen >= LEVEL_BUFFER_SIZE
                  /\ levelWindow' = 0
                  /\ levelsEmitted' = levelsEmitted + 1]_allVars

\* A frame was written and added to the window, recording was stopped and
\* the next frame was dropped: sink and window are what the written frame
\* left.
C22_Witness ==
    /\ lastFrame = "dropped"
    /\ ~is_recording
    /\ sinkFrames = 1
    /\ levelWindow = FrameLen
    /\ cbPc = "idle"

\* convert_audio_for_whisper has returned.
Normalized == wav # Pending

\* The WAV header says 16-bit integer PCM, mono, 16000 Hz.
Canonical(w) ==
    /\ w.parses
    /\ w.format = "Int" /\ w.bits = 16
    /\ w.channels = 1
    /\ w.rate = 16000

\* C23: for every input whose WAV header says 16-bit integer PCM, mono,
\* 16000 Hz the normalizer returns the input bytes unchanged, and the format
\* check is the only step that ran: no tier 2, no resampler, no ffmpeg.
C23_CanonicalIsReturnedUnchanged ==
    (Normalized /\ Canonical(audio)) =>
        /\ wav = Result("Ok", audio)
        /\ trace = <<"tier1">>

\* A canonical input with frames of a sample value that tier 2 would change
\* has come back from the normalizer.
C23_Witness ==
    /\ Normalized
    /\ Canonical(audio)
    /\ audio.frames > 0
    /\ audio.sample # ToPcm16(audio.sample)
    /\ wav.bytes = audio

C25_OutputIsCanonical ==
    (Normalized /\ wav.res = "Ok" /\ audio.parses /\ Decodes(audio)
                /\ audio.channels >= 1) =>
        /\ Canonical(wav.bytes)
        /\ wav.bytes.sample \in -32768..32767

\* Three-channel 48 kHz float audio above full scale went through tier 2 and
\* its resampler.
C25_Witness ==
    /\ wav.res = "Ok"
    /\ audio.format = "Float" /\ audio.channels = 3 /\ audio.rate = 48000
    /\ audio.sample > FullScale
    /\ trace = <<"tier1", "tier2", "resampler">>
    /\ wav.bytes.frames > 0

\* C26: for a mono input of N frames at a rate R other than 16000 the
\* pure-resample output has exactly round(N * 16000 / R) frames.
C26_ResampleLengthLaw ==
    (tier2.res = "Ok" /\ audio.channels = 1 /\ audio.rate # 16000) =>
        tier2.bytes.frames = Round(audio.frames * 16000, audio.rate)

\* The length law for the inputs whose last chunk is padded by more than the
\* resampler holds back.
ResampleLengthLawWhenPadded ==
    (tier2.res = "Ok" /\ audio.channels = 1 /\ audio.rate # 16000
                      /\ audio.frames \in {0, 1, 1025}) =>
        tier2.bytes.frames = Round(audio.frames * 16000, audio.rate)

ManagerUntouched ==
    /\ last = Did("new", "Ok")
    /\ calls = <<>>
    /\ engine = NoEngine /\ current_model_path = None
    /\ last_activity = 0 /\ now # 0
    /\ ~engineLocked
    /\ ready = EmptyBag

\* C28: audio with zero samples is extracted as an empty sequence and not
\* an error, and the command then returns empty text without calling the
\* manager: it never reaches get_or_load_*, and the manager is untouched.
C28_EmptyAudioSkipsManager ==
    /\ (tPc = "check" /\ wav.bytes.frames = 0) => samples = 0
    /\ (tPc = "done" /\ wav.res = "Ok" /\ wav.bytes.frames = 0) =>
          tRet = "Ok_empty_text"
    /\ samples = 0 =>
          /\ tPc \in {"check", "done"}
          /\ tPc = "done" => tRet = "Ok_empty_text"
          /\ ManagerUntouched

\* A 48 kHz stereo input without a frame went through tier 2, was extracted
\* as no samples, and the command returned.
C28_Witness ==
    /\ audio.parses /\ audio.frames = 0 /\ audio.rate = 48000
    /\ samples = 0
    /\ tPc = "done"
    /\ tRet = "Ok_empty_text"
    /\ ManagerUntouched

\* get_optimal_config has returned.
Negotiated == optimal # Unnegotiated

\* The distance from the target to the nearest rate a config supports.
Distance(c, target) ==
    IF target < c.min THEN c.min - target
    ELSE IF target > c.max THEN target - c.max
    ELSE 0

\* The rate of a config nearest to the target.
Nearest(c, target) ==
    IF target < c.min THEN c.min ELSE IF target > c.max THEN c.max ELSE target

\* The order of preference for one list of configs and one target rate, over
\* the configs with format F32, I16 or U16.
PickedInOrder(cfgs, target, picked) ==
    LET ok == {i \in 1..Len(cfgs) : cfgs[i].format \in {"F32", "I16", "U16"}}
        covers(i) == cfgs[i].min <= target /\ target <= cfgs[i].max
        mono == {i \in ok : cfgs[i].channels = 1}
        monoCovering == {i \in mono : covers(i)}
        covering == {i \in ok : covers(i)}
    IN  ok # {} =>
          /\ picked.res = "Ok"
          /\ IF monoCovering # {}
             THEN /\ picked.index \in monoCovering
                  /\ \A j \in monoCovering : picked.index <= j
                  /\ picked.rate = target
             ELSE IF covering # {}
             THEN /\ picked.index \in covering
                  /\ \A j \in covering : picked.index <= j
                  /\ picked.rate = target
             ELSE IF mono # {}
             THEN /\ picked.index \in mono
                  /\ \A j \in mono : Distance(cfgs[picked.index], target)
                                        <= Distance(cfgs[j], target)
                  /\ picked.rate = Nearest(cfgs[picked.index], target)
             ELSE /\ picked.index \in ok
                  /\ \A j \in ok : picked.index <= j
                  /\ picked.rate = cfgs[picked.index].min

\* C29: for every list of configs and every target rate get_optimal_config
\* picks (1) the first mono config whose range contains the target, at the
\* target; else (2) the first config whose range contains it, at the target;
\* else (3) the mono config whose nearest endpoint is closest to the target,
\* at that endpoint; else (4) the first compatible config at its minimum
\* rate; only F32, I16 and U16 configs are considered.
C29_PickedInOrder ==
    Negotiated => PickedInOrder(configs, TargetSampleRate(preferred), optimal)

\* The order of preference for the target rates an i32 holds.
PickedInOrderBelowSignBit ==
    (Negotiated /\ TargetSampleRate(preferred) < I32Range) =>
        PickedInOrder(configs, TargetSampleRate(preferred), optimal)

\* A list of two mono configs, neither covering the target, where the one
\* picked is the second: the closest, not the first.
PickedClosestMono ==
    /\ Negotiated
    /\ TargetSampleRate(preferred) < I32Range
    /\ Len(configs) = 2
    /\ optimal.res = "Ok" /\ optimal.index = 2
    /\ \A i \in 1..2 : /\ configs[i].channels = 1
                       /\ configs[i].format \in SupportedFormats
                       /\ ~InRange(configs[i], TargetSampleRate(preferred))

ZeroRun(run) == ~run.nan /\ run.v = 0
FullScaleRun(run) == ~run.nan /\ (run.v >= FullScale - 1 \/ run.v <= -FullScale)

\* C31: the levels computed of a full window are 9 values from 0 to 1, all
\* 0 for a window of zero samples and all 1 for a window of full-scale
\* samples, and after every callback the level buffer holds fewer than 512
\* samples.
C31_LevelsOfFullWindow ==
    /\ BufferLen(level_buffer) < LEVEL_BUFFER_SIZE
    /\ lastWindow # <<>> =>
          /\ BufferLen(lastWindow) >= LEVEL_BUFFER_SIZE
          /\ lastLevels # NoneVal
          /\ LET bars == lastLevels[1]
                 runs == {lastWindow[i] : i \in 1..Len(lastWindow)}
             IN  /\ DOMAIN bars = 1..NUM_BARS
                 /\ \A i \in 1..NUM_BARS :
                        bars[i] >= 0 /\ bars[i] <= MAX_AMPLITUDE
                 /\ (\A run \in runs : ZeroRun(run)) =>
                        \A i \in 1..NUM_BARS : bars[i] = 0
                 /\ (\A run \in runs : FullScaleRun(run)) =>
                        \A i \in 1..NUM_BARS : bars[i] = MAX_AMPLITUDE

\* C31 witness: a callback has computed the levels of a window of two frames
\* of u16 samples, the first silent and the second at full scale: the bars
\* of the first are 0 and those of the second 1, and the buffer is empty.
C31_Witness ==
    /\ streamFormat = "U16"
    /\ Len(lastWindow) = 2
    /\ ZeroRun(lastWindow[1]) /\ FullScaleRun(lastWindow[2])
    /\ lastWindow[1].len = FrameLen /\ lastWindow[2].len = FrameLen
    /\ lastLevels # NoneVal
    /\ lastLevels[1][1] = 0
    /\ lastLevels[1][NUM_BARS] = MAX_AMPLITUDE
    /\ level_buffer = <<>>

\* C32: a command that runs inference runs it on an engine of the variant it
\* asked for, loaded from the path it asked for, whatever other calls ran
\* between its get_or_load and its lock of the handle.
C32_InferenceOnRequestedEngine ==
    \A r \in BagToSet(inferring) : engine = EngineOf(r.variant, r.path)

\* The part of C32 that holds: the engine is of the variant asked for.
InferenceOnRequestedVariant ==
    \A r \in BagToSet(inferring) : engine.variant = r.variant

\* A command asked for one path and runs inference on an engine that another
\* command's get_or_load loaded from another path since.
InferenceOnOtherPath ==
    \E r \in BagToSet(inferring) :
        /\ engine.variant = r.variant
        /\ engine.from # r.path
        /\ current_model_path = engine.from

\* The step is the last part of an unload_if_idle call and takes an engine
\* out of the slot.
IdleUnloadsEngine ==
    idlePc = "lock" /\ idlePc' = "start" /\ engine # NoEngine /\ engine' = NoEngine

\* C33: unload_if_idle unloads an engine only when, at the moment of the
\* unload, the last activity lies further back than the idle timeout.
C33_IdleUnloadOnlyWhenIdle ==
    [][IdleUnloadsEngine => IsIdle(DurationSince(last_activity))]_allVars

\* The one order of the mutexes.
Rank(l) ==
    IF l = "engine" THEN 1 ELSE IF l = "current_model_path" THEN 2 ELSE 3

\* The mutexes whose guard thread t holds.
Held(t) == {l \in Locks : lockOwner[l] = t}

\* C34: no interleaving of the calls deadlocks: while some thread is inside
\* a call some thread can take its next step, and a thread about to lock a
\* mutex holds none that comes later in the order engine, model path, last
\* activity.
C34_NoDeadlock ==
    /\ (\E t \in Threads : at[t].call # "none") => \E t \in Threads : MayRun(t)
    /\ \A t \in Threads :
          (at[t].call # "none" /\ Statement(t).do = "lock") =>
              \A l \in Held(t) : Rank(l) < Rank(Statement(t).lock)

\* C34 witness: one thread holds the engine and path mutexes inside an
\* unload, a second waits for the engine inside get_or_load and a third
\* waits for it to transcribe.
C34_Witness ==
    \E t, u, w \in Threads :
        /\ at[t].call = "unload_model" /\ Held(t) = {"engine", "current_model_path"}
        /\ at[u].call = "get_or_load" /\ at[u].pc = 1
        /\ at[w].call = "transcribe_audio" /\ at[w].pc = 7
        /\ ~MayRun(u) /\ ~MayRun(w)

\* C35: while a command runs inference the engine in the slot is neither
\* unloaded nor replaced: no step taken during an inference changes the
\* slot or calls unload, drop or load on an engine.
C35_EngineStaysDuringInference ==
    [][inferring # EmptyBag =>
          /\ engine' = engine
          /\ live' = live
          /\ \A i \in 1..Len(calls') :
                calls'[i] \notin {"unload", "drop", "load_ok", "load_err"}]_allVars

\* C35 witness: a command runs inference on the loaded engine while
\* unload_if_idle has found the manager idle and waits for the engine mutex,
\* and another command holds the handle and waits for it too.
C35_Witness ==
    /\ inferring # EmptyBag
    /\ engineLocked
    /\ engine # NoEngine
    /\ idlePc = "lock"
    /\ ready # EmptyBag

\* C36: whenever the slot holds an engine, the recorded model path is set
\* and is the path that engine was loaded from.
C36_PathMatchesEngine ==
    engine # NoEngine =>
        current_model_path # None /\ current_model_path = engine.from

\* C36 witness: an inference has panicked on an engine loaded from /models/b
\* after a swap: the mutex is poisoned and the slot still holds the engine
\* under its path.
C36_Witness ==
    /\ poisoned
    /\ engine # NoEngine
    /\ engine.from = "/models/b"
    /\ current_model_path = "/models/b"
    /\ last = Did("inference", "panic")

\* The step on which close_session returns, to its caller or to the
\* init_session, cancel_recording or drop it is part of.
CloseSessionReturns ==
    /\ callerPc \in {"close_lock", "close_finalize"}
    /\ callerPc' \in {"idle", "init_create", "dropped"}

\* C37: close_session always terminates: Shutdown is the last command in
\* the queue, the worker has returned when the join does, and when
\* close_session returns the command channel, worker handle, sink and file
\* path are absent and rate and channels are 0.
C37_CloseSessionTerminates ==
    /\ [][/\ \A i \in 1..Len(cmdQueue') :
                cmdQueue'[i] = "Shutdown" => i = Len(cmdQueue')
          /\ (CloseJoin /\ worker_handle # None) => workerPc = "exited"
          /\ CloseSessionReturns =>
                (Closed' /\ workerPc' \in {"none", "exited"} /\ cmdQueue' = <<>>)
         ]_allVars
    /\ (callerPc = "close_join") ~> (callerPc \in {"idle", "init_create", "dropped"})

\* C37 witness: close_session has sent Shutdown and waits in the join while
\* the worker waits for the callback that is writing a frame.
C37_Witness ==
    /\ callerPc = "close_join"
    /\ callerOp = "close_session"
    /\ cmdQueue = <<"Shutdown">>
    /\ workerPc = "recv"
    /\ cbPc = "writing"
    /\ worker_handle # None

\* The latest call to return was an init_session that failed.
InitFailed == ret.op = "init_session" /\ ret.res # "Ok"

\* C38: an init_session that fails after its close_session leaves no
\* session: the fields are cleared, no worker runs, no file is created, and
\* a start_recording that follows returns the no-session error.
C38_FailedInitLeavesNoSession ==
    [][/\ (callerPc = "init_create" /\ InitFailed') =>
             /\ Closed' /\ ~WorkerRunning' /\ callerPc' = "idle"
             /\ files' = files /\ cmdQueue' = <<>>
       /\ (StartRecording /\ InitFailed) =>
             ret' = Returned("start_recording", "Err_no_session", NoneVal)
      ]_allVars

\* C38 witness: init_session has closed a session that had recorded a frame
\* and then failed to create the sink: the old worker has returned on
\* Shutdown and nothing is in its place.
C38_Witness ==
    /\ ret = Returned("init_session", "Err_wav", NoneVal)
    /\ callerPc = "idle"
    /\ workerExit = "shutdown"
    /\ sinkFrames > 0
    /\ sinkFinalized
    /\ Closed

\* C39: stop_recording on a recorder with no session returns success with
\* rate 0, channels 0, duration 0 and no file path, and touches no sink;
\* stop_recording on a session whose worker has returned comes back with an
\* error and without finalizing the sink.
C39_StopWithoutSessionOrWorker ==
    [][/\ (StopReturns /\ cmd_tx = None) =>
             /\ ret' = Returned("stop_recording", "Ok",
                                Metadata(0, 0, 0, NoneVal))
             /\ UNCHANGED <<sinkFinalized, sinkFrames, files, cmdQueue>>
       /\ (StopReturns /\ cmd_tx # None /\ workerPc = "exited") =>
             /\ ret'.op = "stop_recording"
             /\ ret'.res \in {"Err_send", "Err_recv"}
             /\ UNCHANGED <<sinkFinalized, sinkFrames, files>>
      ]_allVars

\* C39 witness: stop_recording has returned an error on a session whose
\* worker returned on a play error while the Stop was in the queue; the sink
\* is not finalized.
C39_Witness ==
    /\ ret = Returned("stop_recording", "Err_recv", NoneVal)
    /\ callerPc = "idle"
    /\ cmd_tx # None
    /\ workerExit = "play_failed"
    /\ ~sinkFinalized

\* stop_recording has returned success on a recorder whose session was
\* closed after it had recorded: no rate, no channels, no path.
StoppedWithoutSession ==
    /\ ret = Returned("stop_recording", "Ok", Metadata(0, 0, 0, NoneVal))
    /\ callerPc = "idle"
    /\ cmd_tx = None
    /\ workerExit = "shutdown"
    /\ sinkFrames > 0

\* C40: stop_recording does not close the session: when it returns, the
\* command channel, the worker and the sink are where they were; a
\* start_recording on the session whose sink stop_recording finalized
\* succeeds and sets the capture flag, and the frames the callback then
\* takes are written to that same, finalized sink.
C40_StopKeepsSession ==
    [][/\ StopReturns =>
             UNCHANGED <<cmd_tx, worker_handle, writer, file_path, sample_rate,
                         channels, workerPc, cmdQueue>>
       /\ (StartReturns /\ writer # None /\ sinkFinalized) =>
             /\ ret' = Returned("start_recording", "Ok", NoneVal)
             /\ is_recording'
             /\ sinkFinalized'
             /\ UNCHANGED <<writer, file_path, files>>
       /\ (CallbackWrite /\ sinkFinalized) =>
             /\ sinkFrames' = sinkFrames + 1
             /\ sinkFinalized'
             /\ UNCHANGED <<writer, file_path, files>>
      ]_allVars

\* C40 witness: stop_recording finalized the sink before any frame was
\* written, start_recording has then returned success on the same session,
\* and the callback holds the sink's lock with a frame to write.
C40_Witness ==
    /\ sinkFinalized
    /\ sinkFrames = 0
    /\ writer # None
    /\ ret = Returned("start_recording", "Ok", NoneVal)
    /\ callerPc = "idle"
    /\ is_recording
    /\ cbPc = "writing"

====
